---- MODULE Spec2Model ----
(***************************************************************************)
(* Opponent pattern detection and adaptation classification of the         *)
(* gigaverse bot: the statistically gated detector (RobustDetector), the   *)
(* reaction analysis and the three adaptation classifiers.                 *)
(*                                                                         *)
(* The battle log of one opponent grows one battle at a time; after each   *)
(* battle the analysis under study is applied to the whole log, as the     *)
(* scripts apply it to the rows fetched for one enemy.  Fractions are kept *)
(* exact as pairs <<numerator, denominator>> with a positive denominator.  *)
(***************************************************************************)
EXTENDS Integers, Sequences, FiniteSets, TLC

VARIABLES
    battles,      \* the battle log of one enemy, oldest first
    detection,    \* what RobustDetector.detect_pattern returned for the log
    behavior,     \* what analyze_enemy_adaptation returned for the log
    adaptation,   \* what analyze_adaptation returned for the enemy moves
    evolution,    \* what analyze_enemy_evolution returned for the enemy moves
    reaction_result, \* what detect_reaction_patterns returned for the log
    reactivity,   \* the evidence of deeper_reactive_analysis for the log
    markov1,      \* what detect_markov_1 returned for the log
    markov3,      \* what detect_markov_3 returned for the log
    distribution, \* what the copies of get_distribution returned last
    entropy_result, \* what the copies of calculate_entropy returned last
    overfitted_detection, \* what OverfittedDetector.detect_pattern returned for the log
    results, \* the confusion counters and lists of test_detectors
    processed, \* the enemy types of the trials of test_detectors so far
    simulation, \* the locals of simulate_battles, and the enemy moves of its first replay
    report  \* what main of test_robust_detection.py computed from the counters

vars == <<battles, detection, behavior, adaptation, evolution, reaction_result,
          reactivity, markov1, markov3, distribution, entropy_result,
          overfitted_detection, results, processed, simulation, report>>

(***************************************************************************)
(* Bounds of the model.                                                    *)
(***************************************************************************)
\* longest battle log given to the gated detector
MaxBattles == 28

\* longest battle log given to the classifiers
MaxHistory == 31

\* longest battle log of an enemy that never changes its move
MaxFixedHistory == 52

\* longest battle log given to the reaction analyses
MaxReactions == 24

\* longest log of enemy moves given to the Markov detectors
MaxMoves == 33

\* longest list of moves given to get_distribution alone
MaxSample == 6

\* most trials of test_detectors
MaxTrials == 2

\* longest log with tokens that may be no moves
MaxObserved == 16

\* num_battles of the short simulations
MaxSimulated == 2

\* num_battles of the long simulations
MaxExploited == 12

(***************************************************************************)
(* Moves and outcomes.                                                     *)
(***************************************************************************)
\* the order in which the code enumerates the moves
MOVES == <<"rock", "paper", "scissor">>

MoveSet == {"rock", "paper", "scissor"}

\* the move that beats the given move
get_counter(move) ==
    CASE move = "rock" -> "paper"
      [] move = "paper" -> "scissor"
      [] move = "scissor" -> "rock"

\* a variant of get_result that takes a win for the move that is beaten
get_result_OfTheBeaten(our_move, enemy_move) ==
    IF our_move = enemy_move THEN "tie"
    ELSE IF get_counter(our_move) = enemy_move THEN "win"
    ELSE "loss"

\* the result of a battle for the observer ("our" side)
get_result(our_move, enemy_move) ==
    IF our_move = enemy_move THEN "tie"
    ELSE IF get_counter(enemy_move) = our_move THEN "win"
    ELSE "loss"

\* one row of the battle log
Battle(our_move, enemy_move) ==
    [our_move |-> our_move, enemy_move |-> enemy_move,
     result |-> get_result(our_move, enemy_move)]

(***************************************************************************)
(* Exact fractions.                                                        *)
(***************************************************************************)
RatGT(a, b) == a[1] * b[2] > b[1] * a[2]
RatLT(a, b) == a[1] * b[2] < b[1] * a[2]
RatGE(a, b) == a[1] * b[2] >= b[1] * a[2]
RatMin(a, b) == IF RatLT(b, a) THEN b ELSE a
Abs(x) == IF x < 0 THEN -x ELSE x

(***************************************************************************)
(* Counting over a log.                                                    *)
(***************************************************************************)
\* the enemy moves of a log
EnemyMoves(bs) == [i \in 1..Len(bs) |-> bs[i].enemy_move]

\* how often a move occurs in a list of moves
CountOf(move, moves) == Cardinality({i \in 1..Len(moves) : moves[i] = move})

\* the distinct moves of a list in the order of their first occurrence:
\* the key order of a dict filled by one pass over the list
FirstSeen(moves) ==
    LET firsts == {i \in 1..Len(moves) : \A j \in 1..(i - 1) : moves[j] # moves[i]}
    IN [k \in 1..Cardinality(firsts) |->
           moves[CHOOSE i \in firsts : Cardinality({j \in firsts : j < i}) = k - 1]]

\* the keys of the defaultdict counts after the chi-square sum has read
\* counts[m] for rock, paper, scissor: moves never played are added last
RECURSIVE WithMissing(_, _)
WithMissing(keys, i) ==
    IF i > Len(MOVES) THEN keys
    ELSE IF \E j \in 1..Len(keys) : keys[j] = MOVES[i]
         THEN WithMissing(keys, i + 1)
         ELSE WithMissing(Append(keys, MOVES[i]), i + 1)

\* max(items, key = count)[0]: the first key, in key order, of largest count
FirstMax(keys, count(_)) ==
    LET best == CHOOSE i \in 1..Len(keys) :
                  /\ \A j \in 1..Len(keys) : count(keys[j]) <= count(keys[i])
                  /\ \A j \in 1..(i - 1) : count(keys[j]) < count(keys[i])
    IN keys[best]

(***************************************************************************)
(* stats.binom_test(k, n, 1/3, alternative = 'greater'): the probability   *)
(* of k or more successes in n trials of success rate 1/3.  Of the 3^n     *)
(* weighted outcomes of n trials (a success weighs 1, a failure 2),        *)
(* Tails(n)[k + 1] have k or more successes, so p = Tails(n)[k + 1] /      *)
(* 3^n.  The numbers exceed 32 bits, so they are kept as digit lists,      *)
(* lowest digit first.                                                     *)
(***************************************************************************)
LimbBase == 10000

Limb(a, i) == IF i <= Len(a) THEN a[i] ELSE 0

\* the carry into digit i of a + b: some lower digit overflows and every
\* digit between passes the carry on
CarryInto(a, b, i) ==
    IF \E j \in 1..(i - 1) :
          /\ Limb(a, j) + Limb(b, j) >= LimbBase
          /\ \A m \in (j + 1)..(i - 1) : Limb(a, m) + Limb(b, m) = LimbBase - 1
    THEN 1 ELSE 0

BigAdd(a, b) ==
    LET len == IF Len(a) > Len(b) THEN Len(a) ELSE Len(b)
    IN [i \in 1..(len + CarryInto(a, b, len + 1)) |->
           (Limb(a, i) + Limb(b, i) + CarryInto(a, b, i)) % LimbBase] \o <<>>

\* a * k for a small factor k, by doubling
RECURSIVE BigTimes(_, _)
BigTimes(a, k) ==
    IF k = 0 THEN <<>>
    ELSE IF k = 1 THEN a
    ELSE CHOOSE product \in
           {IF k % 2 = 0 THEN BigAdd(half, half) ELSE BigAdd(BigAdd(half, half), a) :
              half \in {BigTimes(a, k \div 2)}} : TRUE

\* a < b, for digit lists without leading zero digits
BigLess(a, b) ==
    \/ Len(a) < Len(b)
    \/ /\ Len(a) = Len(b)
       /\ \E i \in 1..Len(a) :
            /\ a[i] < b[i]
            /\ \A m \in (i + 1)..Len(a) : a[m] = b[m]

\* Tails(n)[k + 1] is the weight of the outcomes of n trials with k or more
\* successes: a failure (weight 2) keeps the number of successes, a success
\* (weight 1) adds one, and every outcome has 0 or more successes
NextTails(prev) ==
    [j \in 1..(Len(prev) + 1) |->
        BigAdd(IF j > 1 THEN prev[j - 1] ELSE prev[1],
               IF j <= Len(prev) THEN BigAdd(prev[j], prev[j]) ELSE <<>>)] \o <<>>

RECURSIVE Tails(_)
Tails(n) ==
    IF n = 0 THEN << <<1>> >>
    ELSE CHOOSE row \in {NextTails(prev) : prev \in {Tails(n - 1)}} : TRUE

\* SIGNIFICANCE = 0.05
SIGNIFICANCE == <<1, 20>>

\* binom_test(k, n, 1/3, 'greater') < SIGNIFICANCE, from the weight of the
\* outcomes with k or more successes and the weight of all outcomes
PValueBelowSignificance(tail, all) ==
    BigLess(BigTimes(tail, SIGNIFICANCE[2]), BigTimes(all, SIGNIFICANCE[1]))

\* the verdicts for 0..n successes in n trials, row being Tails(n)
Verdicts(row) ==
    [k \in 1..Len(row) |-> PValueBelowSignificance(row[k], row[1])] \o <<>>

\* the test's verdict for every count of every number of transitions met:
\* BinomTable[n + 1][k + 1] for k successes in n trials
BinomTable ==
    [n \in 1..(IF MaxBattles > MaxHistory THEN MaxBattles ELSE MaxHistory) |->
        CHOOSE verdicts \in {Verdicts(row) : row \in {Tails(n - 1)}} : TRUE] \o <<>>

binom_test_significant(k, n) == BinomTable[n + 1][k + 1]

(***************************************************************************)
(* RobustDetector                                                          *)
(***************************************************************************)
MIN_SAMPLES == 15

\* the length from which the reactive tests run
REACTIVE_MIN == 20

NoDetection ==
    [type |-> "none", move |-> "none", rate |-> <<0, 1>>,
     confidence |-> <<0, 1>>, detected_at |-> 0]

\* chi_square > 5.991, with chi_square = sum of (count - total/3)^2 / (total/3)
\* = sum of (3 count - total)^2 / (3 total)
ChiSquareSignificant(moves) ==
    LET total == Len(moves)
        sq(m) == (3 * CountOf(m, moves) - total) * (3 * CountOf(m, moves) - total)
    IN 1000 * (sq("rock") + sq("paper") + sq("scissor")) > 5991 * 3 * total

\* the dominant move of the counts dict
Dominant(moves) ==
    LET count(m) == CountOf(m, moves)
    IN FirstMax(WithMissing(FirstSeen(moves), 1), count)

\* transitions i (2..len) whose enemy move counters our previous move
CounterCount(bs) ==
    Cardinality({i \in 2..Len(bs) :
                    bs[i].enemy_move = get_counter(bs[i - 1].our_move)})

\* transitions i (2..len) whose enemy move copies our previous move
CopyCount(bs) ==
    Cardinality({i \in 2..Len(bs) : bs[i].enemy_move = bs[i - 1].our_move})

BiasDetection(bs) ==
    LET moves == EnemyMoves(bs)
        total == Len(bs)
        dominant == Dominant(moves)
    IN [type |-> "bias", move |-> dominant, rate |-> <<0, 1>>,
        confidence |-> RatMin(<<9, 10>>, <<CountOf(dominant, moves), total>>),
        detected_at |-> total]

\* a variant of BiasAccepted without the floor on the dominant share
BiasAccepted_NoEffectSize(bs) == ChiSquareSignificant(EnemyMoves(bs))

BiasAccepted(bs) ==
    /\ ChiSquareSignificant(EnemyMoves(bs))
    /\ RatGT(<<CountOf(Dominant(EnemyMoves(bs)), EnemyMoves(bs)), Len(bs)>>,
             <<45, 100>>)

\* a variant of ReactiveAccepted on the raw rate alone, the rule of
\* OverfittedDetector (rate > 0.35)
ReactiveAccepted_RawRate(count, n) == 100 * count > 35 * n

\* count > expected (= n / 3) and the binomial test is significant
ReactiveAccepted(count, n) ==
    /\ 3 * count > n
    /\ binom_test_significant(count, n)

ReactiveDetection(type, count, n, total) ==
    [type |-> type, move |-> "none", rate |-> <<count, n>>,
     confidence |-> <<7, 10>>, detected_at |-> total]

\* a variant of TooFewSamples that also turns away a log of MIN_SAMPLES battles
TooFewSamples_Inclusive(bs) == Len(bs) <= MIN_SAMPLES

\* len(battles) < self.MIN_SAMPLES
TooFewSamples(bs) == Len(bs) < MIN_SAMPLES

\* a variant of RobustDetector_detect_pattern that tests the copy count
\* before the counter count
RobustDetector_detect_pattern_CopierFirst(bs) ==
    IF TooFewSamples(bs) THEN NoDetection
    ELSE IF BiasAccepted(bs) THEN BiasDetection(bs)
    ELSE IF Len(bs) >= REACTIVE_MIN
    THEN LET n == Len(bs) - 1
         IN IF ReactiveAccepted(CopyCount(bs), n)
            THEN ReactiveDetection("copier", CopyCount(bs), n, Len(bs))
            ELSE IF ReactiveAccepted(CounterCount(bs), n)
            THEN ReactiveDetection("counter", CounterCount(bs), n, Len(bs))
            ELSE NoDetection
    ELSE NoDetection

RobustDetector_detect_pattern(bs) ==
    IF TooFewSamples(bs) THEN NoDetection
    ELSE IF BiasAccepted(bs) THEN BiasDetection(bs)
    ELSE IF Len(bs) >= REACTIVE_MIN
    THEN LET n == Len(bs) - 1
         IN IF ReactiveAccepted(CounterCount(bs), n)
            THEN ReactiveDetection("counter", CounterCount(bs), n, Len(bs))
            ELSE IF ReactiveAccepted(CopyCount(bs), n)
            THEN ReactiveDetection("copier", CopyCount(bs), n, Len(bs))
            ELSE NoDetection
    ELSE NoDetection

(***************************************************************************)
(* OverfittedDetector                                                      *)
(***************************************************************************)
\* the length from which OverfittedDetector looks at a log
OVERFITTED_MIN == 5

\* the length from which its reactive rule runs
OVERFITTED_REACTIVE_MIN == 10

\* the dominant move of its counts dict, whose keys are the moves played
OverfittedDominant(moves) ==
    LET count(m) == CountOf(m, moves)
    IN FirstMax(FirstSeen(moves), count)

\* counts[dominant] / total > 0.4
OverfittedBiasAccepted(bs) ==
    RatGT(<<CountOf(OverfittedDominant(EnemyMoves(bs)), EnemyMoves(bs)), Len(bs)>>,
          <<4, 10>>)

OverfittedBiasDetection(bs) ==
    LET moves == EnemyMoves(bs)
        dominant == OverfittedDominant(moves)
    IN [type |-> "bias", move |-> dominant, rate |-> <<0, 1>>,
        confidence |-> <<CountOf(dominant, moves), Len(bs)>>,
        detected_at |-> Len(bs)]

\* counter_count / (len(battles) - 1) > 0.35
OverfittedCounterAccepted(bs) == RatGT(<<CounterCount(bs), Len(bs) - 1>>, <<35, 100>>)

OverfittedCounterDetection(bs) ==
    [type |-> "counter", move |-> "none", rate |-> <<CounterCount(bs), Len(bs) - 1>>,
     confidence |-> <<8, 10>>, detected_at |-> Len(bs)]

OverfittedDetector_detect_pattern(bs) ==
    IF Len(bs) < OVERFITTED_MIN THEN NoDetection
    ELSE IF OverfittedBiasAccepted(bs) THEN OverfittedBiasDetection(bs)
    ELSE IF Len(bs) >= OVERFITTED_REACTIVE_MIN /\ OverfittedCounterAccepted(bs)
    THEN OverfittedCounterDetection(bs)
    ELSE NoDetection

(***************************************************************************)
(* test_detectors: the trials and the confusion counters                   *)
(***************************************************************************)
\* the battles of one trial
TRIAL_BATTLES == 30

ENEMY_TYPES == {"random", "biased", "counter", "noisy_biased"}

\* true_pattern: the enemy type is one of the patterned ones
TruePattern(enemy_type) == enemy_type \in {"biased", "counter", "noisy_biased"}

\* the counters and lists of one detector before the first trial
NoCounts ==
    [true_positives |-> 0, false_positives |-> 0, true_negatives |-> 0,
     false_negatives |-> 0, detection_battles |-> <<>>,
     confidence_when_correct |-> <<>>, confidence_when_wrong |-> <<>>]

NoResults == [robust |-> NoCounts, overfitted |-> NoCounts]

\* enemy_types holds random enemies and patterned enemies
Mixed(enemy_types) ==
    /\ \E i \in 1..Len(enemy_types) : ~TruePattern(enemy_types[i])
    /\ \E i \in 1..Len(enemy_types) : TruePattern(enemy_types[i])

\* the truth value of what a detector returned: None is false, a dict true
Fired(found) == found # NoDetection

\* a variant of Tally that counts a trial only when the detector fired
Tally_DetectionsOnly(data, found, true_pattern) ==
    IF Fired(found)
    THEN IF true_pattern
         THEN [data EXCEPT !.true_positives = @ + 1]
         ELSE [data EXCEPT !.false_positives = @ + 1]
    ELSE data

\* the counters and lists of one detector after one more trial
Tally(data, found, true_pattern) ==
    IF Fired(found)
    THEN IF true_pattern
         THEN [data EXCEPT !.true_positives = @ + 1,
                           !.confidence_when_correct = Append(@, found.confidence),
                           !.detection_battles = Append(@, found.detected_at)]
         ELSE [data EXCEPT !.false_positives = @ + 1,
                           !.confidence_when_wrong = Append(@, found.confidence),
                           !.detection_battles = Append(@, found.detected_at)]
    ELSE IF true_pattern
         THEN [data EXCEPT !.false_negatives = @ + 1]
         ELSE [data EXCEPT !.true_negatives = @ + 1]

(***************************************************************************)
(* main of test_robust_detection.py: the metrics of the two detectors and  *)
(* the conclusion.  A division by zero raises ZeroDivisionError and ends   *)
(* main at the line of the division.                                       *)
(***************************************************************************)
\* main has not got to the metrics
NoReport == [status |-> "not_run"]

\* main was ended by a ZeroDivisionError raised at a line
Raised(line) == [status |-> "ZeroDivisionError", line |-> line]

\* a / b for two fractions, b not 0
RatDiv(a, b) == <<a[1] * b[2], a[2] * b[1]>>

\* a - b for two fractions
RatSub(a, b) == <<a[1] * b[2] - b[1] * a[2], a[2] * b[2]>>

\* x / total if total > 0 else 0
GuardedRate(x, total) == IF total > 0 THEN <<x, total>> ELSE <<0, 1>>

\* the sum of the four counters of a detector
Trials(data) ==
    data.true_positives + data.false_positives
        + data.true_negatives + data.false_negatives

\* false_positives + true_negatives of a detector
Negatives(data) == data.false_positives + data.true_negatives

\* the metrics of one detector; accuracy is computed when Trials(data) > 0
Metrics(data) ==
    LET tp == data.true_positives
        fp == data.false_positives
        tn == data.true_negatives
        fn == data.false_negatives
        precision == GuardedRate(tp, tp + fp)
        recall == GuardedRate(tp, tp + fn)
    IN [precision |-> precision,
        recall |-> recall,
        f1 |-> IF precision[1] * recall[2] + recall[1] * precision[2] > 0
               THEN <<2 * precision[1] * recall[1],
                      precision[1] * recall[2] + recall[1] * precision[2]>>
               ELSE <<0, 1>>,
        accuracy |-> <<tp + tn, tp + fp + tn + fn>>,
        false_positive_rate |-> GuardedRate(fp, fp + tn)]

\* the reduction in false positives, in percent, when overfitted_fpr is
\* not 0
Reduction(robust_fpr, overfitted_fpr) ==
    LET quotient == RatDiv(RatSub(overfitted_fpr, robust_fpr), overfitted_fpr)
    IN <<100 * quotient[1], quotient[2]>>

\* main from the metrics on: what it has computed when it ends
Report(res) ==
    IF Trials(res.robust) = 0 \/ Trials(res.overfitted) = 0 THEN Raised(272)
    ELSE IF Negatives(res.robust) = 0 THEN Raised(302)
    ELSE IF Negatives(res.overfitted) = 0 THEN Raised(303)
    ELSE IF res.overfitted.false_positives = 0 THEN Raised(307)
    ELSE [status |-> "printed",
          robust |-> Metrics(res.robust),
          overfitted |-> Metrics(res.overfitted),
          robust_fpr |-> <<res.robust.false_positives, Negatives(res.robust)>>,
          overfitted_fpr |->
              <<res.overfitted.false_positives, Negatives(res.overfitted)>>,
          reduction |->
              Reduction(<<res.robust.false_positives, Negatives(res.robust)>>,
                        <<res.overfitted.false_positives, Negatives(res.overfitted)>>)]

(***************************************************************************)
(* Distributions and entropy.  A distribution holds the three              *)
(* probabilities as numerators over the common denominator total.          *)
(***************************************************************************)
\* get_distribution of analyze_enemy_behavior.py
get_distribution(moves) ==
    IF moves = <<>>
    THEN [rock |-> 333, paper |-> 333, scissor |-> 334, total |-> 1000]
    ELSE [rock |-> CountOf("rock", moves), paper |-> CountOf("paper", moves),
          scissor |-> CountOf("scissor", moves), total |-> Len(moves)]

\* get_distribution of analyze_enemy_adaptation.py and analyze_enemy_patterns.py
get_distribution_adaptation(moves) ==
    IF moves = <<>>
    THEN [rock |-> 33, paper |-> 33, scissor |-> 34, total |-> 100]
    ELSE [rock |-> CountOf("rock", moves), paper |-> CountOf("paper", moves),
          scissor |-> CountOf("scissor", moves), total |-> Len(moves)]

\* the probability of a move as a fraction
Prob(dist, move) == <<dist[move], dist.total>>

\* math.log2 of 1..13 in units of 10^-5 bit; the logarithm of a product is
\* the sum of the logarithms of its factors, so that entropies that are
\* equal as real numbers stay equal
Log2Units ==
    <<0, 100000, 158496, 200000, 232193, 258496, 280735, 300000, 316992,
      332193, 345943, 358496, 370044>>

\* one bit and log2(3) in the same units
BitUnits == Log2Units[2]
Log2Of3Units == Log2Units[3]

\* math.log2 of the numerators and the denominators of the distributions
\* that the copies of get_distribution return for an empty list
Log2OfDefault ==
    [n \in {33, 34, 100, 333, 334, 1000} |->
        CASE n = 33 -> 504439 [] n = 34 -> 508746 [] n = 100 -> 664386
          [] n = 333 -> 837938 [] n = 334 -> 838370 [] n = 1000 -> 996578]

\* math.log2 of a count or of a total
Log2(n) == IF n \in DOMAIN Log2Units THEN Log2Units[n] ELSE Log2OfDefault[n]

\* a variant of calculate_entropy that takes the counts for probabilities
calculate_entropy_OfCounts(dist) ==
    LET term(m) == IF dist[m] > 0 THEN dist[m] * Log2(dist[m]) ELSE 0
    IN <<term("rock") + term("paper") + term("scissor"), dist.total>>

\* Shannon entropy -sum p log2 p of a distribution, as the fraction
\* <<total log2 total - sum count log2 count, total>> of units of 10^-5 bit;
\* a probability of 0 adds nothing
calculate_entropy(dist) ==
    LET term(m) == IF dist[m] > 0 THEN dist[m] * Log2(dist[m]) ELSE 0
    IN <<dist.total * Log2(dist.total)
            - term("rock") - term("paper") - term("scissor"),
         dist.total>>

\* calculate_entropy of analyze_enemy_behavior.py: the entropy divided by
\* math.log2(3), as a fraction
calculate_entropy_behavior(dist) ==
    <<calculate_entropy(dist)[1], calculate_entropy(dist)[2] * Log2Of3Units>>

\* calculate_entropy of analyze_enemy_adaptation.py and of
\* analyze_enemy_patterns.py: the entropy in bits, as a fraction of units
calculate_entropy_adaptation(dist) == calculate_entropy(dist)

\* later - earlier > threshold for two entropies; unit is BitUnits for
\* entropies in bits and Log2Of3Units for entropies divided by log2(3)
EntropyRiseExceeds(earlier, later, threshold, unit) ==
    (later[1] * earlier[2] - earlier[1] * later[2]) * threshold[2]
        > threshold[1] * unit * earlier[2] * later[2]

(***************************************************************************)
(* abs(x - y) > threshold for two quotients x, y computed in binary        *)
(* floating point.  Where the exact difference is off the threshold the    *)
(* rounded one is on the same side; where it equals the threshold the      *)
(* rounding decides, and for denominators up to 13 the rounded difference  *)
(* exceeds 0.15 resp. 0.2 for exactly the pairs listed.                    *)
(***************************************************************************)
RatEq(a, b) == a[1] * b[2] = b[1] * a[2]

RatAbsDiff(a, b) == <<Abs(a[1] * b[2] - b[1] * a[2]), a[2] * b[2]>>

RoundedAbove ==
    {<< <<3, 20>>, <<1, 4>>, <<2, 5>> >>, << <<3, 20>>, <<3, 5>>, <<3, 4>> >>,
     << <<3, 20>>, <<3, 4>>, <<9, 10>> >>,
     << <<1, 5>>, <<3, 5>>, <<4, 5>> >>, << <<1, 5>>, <<7, 10>>, <<9, 10>> >>}

FloatDiffExceeds(x, y, threshold) ==
    \/ RatGT(RatAbsDiff(x, y), threshold)
    \/ /\ RatEq(RatAbsDiff(x, y), threshold)
       /\ \E r \in RoundedAbove :
            /\ RatEq(r[1], threshold)
            /\ \/ RatEq(x, r[2]) /\ RatEq(y, r[3])
               \/ RatEq(x, r[3]) /\ RatEq(y, r[2])

(***************************************************************************)
(* Periods: range(0, len, period_size) and the slices [i : i+period_size]. *)
(***************************************************************************)
Min(a, b) == IF a < b THEN a ELSE b
Max(a, b) == IF a > b THEN a ELSE b

Periods(seq, period_size) ==
    [k \in 1..((Len(seq) + period_size - 1) \div period_size) |->
        SubSeq(seq, (k - 1) * period_size + 1, Min(k * period_size, Len(seq)))]
    \o <<>>

(***************************************************************************)
(* analyze_enemy_behavior.py: detect_reaction_patterns                     *)
(***************************************************************************)
\* shortest log the reaction analysis looks at
REACTION_MIN == 10

\* the transitions i (2..len) that follow a battle whose stored result is
\* 'loss', in order
AfterLoss(bs) == {i \in 2..Len(bs) : bs[i - 1].result = "loss"}

\* how the enemy move of transition i relates to its previous move
LossReaction(bs, i) ==
    IF bs[i].enemy_move = get_counter(bs[i - 1].enemy_move) THEN "switches_to_counter"
    ELSE IF bs[i].enemy_move = bs[i - 1].enemy_move THEN "repeats_move"
    ELSE "random_switch"

\* the reactions met after a loss, in the order of their first occurrence
\* (the key order of the dict loss_reactions)
LossReactionKeys(bs) ==
    LET idx == AfterLoss(bs)
        firsts == {i \in idx : \A j \in idx : j < i => LossReaction(bs, j) # LossReaction(bs, i)}
    IN [k \in 1..Cardinality(firsts) |->
           LossReaction(bs, CHOOSE i \in firsts : Cardinality({j \in firsts : j < i}) = k - 1)]
       \o <<>>

LossReactionCount(bs, reaction) ==
    Cardinality({i \in AfterLoss(bs) : LossReaction(bs, i) = reaction})

\* the after-loss patterns appended when total_losses > 5
AfterLossPatterns(bs) ==
    LET total_losses == Cardinality(AfterLoss(bs))
        keys == LossReactionKeys(bs)
        kept == IF total_losses > 5
                THEN {k \in 1..Len(keys) :
                        RatGT(<<LossReactionCount(bs, keys[k]), total_losses>>, <<4, 10>>)}
                ELSE {}
    IN [j \in 1..Cardinality(kept) |->
           <<"after_loss",
             keys[CHOOSE k \in kept : Cardinality({l \in kept : l < k}) = j - 1]>>]
       \o <<>>

\* no call of detect_reaction_patterns has returned yet
NoReaction == [status |-> "not_run"]

\* a variant of TooFewForReaction that also turns away a log of ten battles
TooFewForReaction_Inclusive(bs) == Len(bs) <= REACTION_MIN

TooFewForReaction(bs) == Len(bs) < REACTION_MIN

\* the dict returned for a short log has the keys reactive and patterns only
detect_reaction_patterns(bs) ==
    IF TooFewForReaction(bs)
    THEN [reactive |-> FALSE, patterns |-> <<>>]
    ELSE LET reaction_rate == <<CounterCount(bs), Len(bs) - 1>>
             copy_rate == <<CopyCount(bs), Len(bs) - 1>>
             patterns ==
                 (IF RatGT(reaction_rate, <<4, 10>>)
                  THEN << <<"counters_our_moves">> >> ELSE <<>>)
                 \o (IF RatGT(copy_rate, <<4, 10>>)
                     THEN << <<"copies_our_moves">> >> ELSE <<>>)
                 \o AfterLossPatterns(bs)
         IN [reactive |-> Len(patterns) > 0, patterns |-> patterns,
             counter_rate |-> reaction_rate, copy_rate |-> copy_rate]

(***************************************************************************)
(* analyze_enemy_behavior.py: analyze_enemy_adaptation                     *)
(***************************************************************************)
\* shortest log analyze_enemy_adaptation classifies
BEHAVIOR_MIN == 15

\* smallest period size
MIN_PERIOD == 10

\* the period size is len // BEHAVIOR_PERIODS, at least MIN_PERIOD
BEHAVIOR_PERIODS == 4

\* e in the list
Has(list, e) == \E i \in 1..Len(list) : list[i] = e

\* max(dist.items(), key = probability)[0]: keys in the order rock, paper,
\* scissor
DominantOfDistribution(dist) ==
    LET count(m) == dist[m]
    IN FirstMax(MOVES, count)

\* the analysis of period number i
PeriodAnalysis(i, period) ==
    LET enemy_moves == EnemyMoves(period)
        dist == get_distribution(enemy_moves)
        \* our loss = enemy win
        enemy_wins == Cardinality({j \in 1..Len(period) : period[j].result = "loss"})
    IN [period |-> i,
        distribution |-> dist,
        entropy |-> calculate_entropy(dist),
        win_rate |-> <<enemy_wins, Len(period)>>,
        dominant_move |-> DominantOfDistribution(dist),
        battles |-> Len(period)]

\* the signs of a changed share of each move between first and last period
RECURSIVE ShareSigns(_, _, _)
ShareSigns(first_dist, last_dist, i) ==
    IF i > Len(MOVES) THEN <<>>
    ELSE LET move == MOVES[i]
             first == Prob(first_dist, move)
             last == Prob(last_dist, move)
         IN (IF FloatDiffExceeds(last, first, <<15, 100>>)
             THEN << <<move, IF RatGT(last, first) THEN "increased" ELSE "decreased">> >>
             ELSE <<>>)
            \o ShareSigns(first_dist, last_dist, i + 1)

\* the adaptation signs between the first and the last period
AdaptationSigns(first, last) ==
    ShareSigns(first.distribution, last.distribution, 1)
    \o (IF EntropyRiseExceeds(first.entropy, last.entropy, <<15, 100>>, Log2Of3Units)
        THEN << <<"becoming_unpredictable">> >>
        ELSE IF EntropyRiseExceeds(last.entropy, first.entropy, <<15, 100>>, Log2Of3Units)
        THEN << <<"becoming_predictable">> >>
        ELSE <<>>)
    \o (IF FloatDiffExceeds(last.win_rate, first.win_rate, <<15, 100>>)
        THEN IF RatGT(last.win_rate, first.win_rate)
             THEN << <<"improving_performance">> >>
             ELSE << <<"declining_performance">> >>
        ELSE <<>>)
    \o (IF first.dominant_move # last.dominant_move
        THEN << <<"shifted", first.dominant_move, last.dominant_move>> >>
        ELSE <<>>)
\* a variant of BehaviorType: the learning rule is tried before the
\* randomization rule
BehaviorType_LearningFirst(reaction_analysis, adaptation_signs) ==
    IF reaction_analysis.reactive THEN "reactive"
    ELSE IF Has(adaptation_signs, <<"improving_performance">>) /\ Len(adaptation_signs) >= 2
    THEN "learning"
    ELSE IF Has(adaptation_signs, <<"becoming_unpredictable">>)
    THEN "defensive_randomization"
    ELSE IF Len(adaptation_signs) >= 3 THEN "actively_adapting"
    ELSE IF Len(adaptation_signs) >= 1 THEN "gradually_shifting"
    ELSE "stable"

\* the classification by reaction analysis and adaptation signs
BehaviorType(reaction_analysis, adaptation_signs) ==
    IF reaction_analysis.reactive THEN "reactive"
    ELSE IF Has(adaptation_signs, <<"becoming_unpredictable">>)
    THEN "defensive_randomization"
    ELSE IF Has(adaptation_signs, <<"improving_performance">>) /\ Len(adaptation_signs) >= 2
    THEN "learning"
    ELSE IF Len(adaptation_signs) >= 3 THEN "actively_adapting"
    ELSE IF Len(adaptation_signs) >= 1 THEN "gradually_shifting"
    ELSE "stable"

\* the periods of analyze_enemy_adaptation
BehaviorPeriods(bs) == Periods(bs, Max(MIN_PERIOD, Len(bs) \div BEHAVIOR_PERIODS))

NotAnalyzed ==
    [status |-> "not_run", total_battles |-> 0, periods |-> <<>>,
     adaptation_signs |-> <<>>, adaptation_type |-> "none",
     reactive_patterns |-> <<>>, counter_rate |-> <<0, 1>>, copy_rate |-> <<0, 1>>]

analyze_enemy_adaptation(bs) ==
    IF Len(bs) < BEHAVIOR_MIN
    THEN [NotAnalyzed EXCEPT !.status = "insufficient_data", !.total_battles = Len(bs)]
    ELSE LET periods == BehaviorPeriods(bs)
             period_analyses ==
                 [i \in 1..Len(periods) |-> PeriodAnalysis(i, periods[i])] \o <<>>
             adaptation_signs ==
                 IF Len(period_analyses) >= 2
                 THEN AdaptationSigns(period_analyses[1],
                                      period_analyses[Len(period_analyses)])
                 ELSE <<>>
             reaction_analysis == detect_reaction_patterns(bs)
         IN [status |-> "analyzed",
             total_battles |-> Len(bs),
             periods |-> period_analyses,
             adaptation_signs |-> adaptation_signs,
             adaptation_type |-> BehaviorType(reaction_analysis, adaptation_signs),
             reactive_patterns |-> reaction_analysis.patterns,
             counter_rate |-> reaction_analysis.counter_rate,
             copy_rate |-> reaction_analysis.copy_rate]

(***************************************************************************)
(* analyze_enemy_adaptation.py: analyze_adaptation, on the enemy moves     *)
(***************************************************************************)
\* a variant of ADAPTATION_MIN: the minimum of analyze_enemy_adaptation
ADAPTATION_MIN_OfBehavior == BEHAVIOR_MIN

\* shortest history analyze_adaptation classifies
ADAPTATION_MIN == 10

\* the period size is len // ADAPTATION_PERIODS, at least MIN_PERIOD
ADAPTATION_PERIODS == 5

\* fewest periods for the entropy trend and for the cycle check
TREND_PERIODS == 3

AdaptationPeriods(moves) ==
    Periods(moves, Max(MIN_PERIOD, Len(moves) \div ADAPTATION_PERIODS))

\* sum of |p - 0.333| over the three moves < 0.1
ConvergingToNash(dist) ==
    LET dev(m) == Abs(1000 * dist[m] - 333 * dist.total)
    IN dev("rock") + dev("paper") + dev("scissor") < 100 * dist.total
\* a variant of ShiftExceeds with a threshold of 0.1
ShiftExceeds_TenPercent(prev, curr) ==
    \E i \in 1..Len(MOVES) :
        FloatDiffExceeds(Prob(curr, MOVES[i]), Prob(prev, MOVES[i]), <<1, 10>>)

\* max_change > 0.2, max_change being the largest change of a move's share
ShiftExceeds(prev, curr) ==
    \E i \in 1..Len(MOVES) :
        FloatDiffExceeds(Prob(curr, MOVES[i]), Prob(prev, MOVES[i]), <<2, 10>>)

\* the strategy shifts between periods i and i + 1, from period i on.  The
\* text of a pattern also names the move that changed most and its
\* direction; no decision reads them, so a pattern here is its period.
RECURSIVE ShiftPatterns(_, _)
ShiftPatterns(distributions, i) ==
    IF i >= Len(distributions) THEN <<>>
    ELSE (IF ShiftExceeds(distributions[i], distributions[i + 1])
          THEN << <<"period", i>> >>
          ELSE <<>>)
         \o ShiftPatterns(distributions, i + 1)

\* Counter(period).most_common(1)[0][0]: the most frequent move, the one met
\* first among equally frequent ones
DominantOfPeriod(period) ==
    LET count(m) == CountOf(m, period)
    IN FirstMax(FirstSeen(period), count)

\* the pairs of consecutive periods whose dominant moves follow the cycle
\* rock -> paper -> scissor -> rock
CyclingPairs(periods) ==
    Cardinality({i \in 2..Len(periods) :
                    DominantOfPeriod(periods[i]) = get_counter(DominantOfPeriod(periods[i - 1]))})

\* a variant of CyclingStrategy that asks for half of the pairs of periods
CyclingStrategy_HalfOfPairs(periods) ==
    /\ Len(periods) >= TREND_PERIODS
    /\ 2 * CyclingPairs(periods) >= Len(periods) - 1

\* cycling >= len(dominant_per_period) * 0.5
CyclingStrategy(periods) ==
    /\ Len(periods) >= TREND_PERIODS
    /\ 2 * CyclingPairs(periods) >= Len(periods)

AdaptationPatterns(periods, distributions, entropies) ==
    (IF ConvergingToNash(distributions[Len(distributions)])
     THEN << <<"converging_to_nash">> >> ELSE <<>>)
    \o (IF Len(entropies) >= TREND_PERIODS
        THEN IF EntropyRiseExceeds(entropies[1], entropies[Len(entropies)], <<2, 10>>, BitUnits)
             THEN << <<"increasing_randomness">> >>
             ELSE IF EntropyRiseExceeds(entropies[Len(entropies)], entropies[1], <<2, 10>>, BitUnits)
             THEN << <<"becoming_predictable">> >>
             ELSE <<>>
        ELSE <<>>)
    \o (IF Len(distributions) >= 2 THEN ShiftPatterns(distributions, 1) ELSE <<>>)
    \o (IF CyclingStrategy(periods) THEN << <<"cycling_strategy">> >> ELSE <<>>)

\* a variant of AdaptationType that looks at the entropy trend before the
\* convergence to uniform
AdaptationType_RandomnessFirst(patterns) ==
    IF Has(patterns, <<"increasing_randomness">>) THEN "adaptive_randomization"
    ELSE IF Has(patterns, <<"converging_to_nash">>) THEN "nash_convergence"
    ELSE IF Has(patterns, <<"cycling_strategy">>) THEN "cycling"
    ELSE IF Has(patterns, <<"becoming_predictable">>) THEN "settling_into_pattern"
    ELSE IF Len(patterns) > 2 THEN "actively_adapting"
    ELSE "stable"

AdaptationType(patterns) ==
    IF Has(patterns, <<"converging_to_nash">>) THEN "nash_convergence"
    ELSE IF Has(patterns, <<"cycling_strategy">>) THEN "cycling"
    ELSE IF Has(patterns, <<"increasing_randomness">>) THEN "adaptive_randomization"
    ELSE IF Has(patterns, <<"becoming_predictable">>) THEN "settling_into_pattern"
    ELSE IF Len(patterns) > 2 THEN "actively_adapting"
    ELSE "stable"

NoAdaptation ==
    [status |-> "not_run", battles |-> 0, periods_analyzed |-> 0,
     distributions |-> <<>>, entropies |-> <<>>, patterns |-> <<>>,
     adaptation_type |-> "none"]

analyze_adaptation(moves) ==
    IF Len(moves) < ADAPTATION_MIN
    THEN [NoAdaptation EXCEPT !.status = "insufficient_data", !.battles = Len(moves)]
    ELSE LET periods == AdaptationPeriods(moves)
             distributions ==
                 [i \in 1..Len(periods) |-> get_distribution_adaptation(periods[i])] \o <<>>
             entropies ==
                 [i \in 1..Len(periods) |-> calculate_entropy(distributions[i])] \o <<>>
             patterns == AdaptationPatterns(periods, distributions, entropies)
         IN [status |-> "analyzed",
             battles |-> Len(moves),
             periods_analyzed |-> Len(periods),
             distributions |-> distributions,
             entropies |-> entropies,
             patterns |-> patterns,
             adaptation_type |-> AdaptationType(patterns)]

(***************************************************************************)
(* analyze_enemy_patterns.py: analyze_enemy_evolution, on the enemy moves  *)
(***************************************************************************)
\* shortest history analyze_enemy_evolution classifies
EVOLUTION_MIN == 10

\* the size of the windows of the entropy evolution
EVOLUTION_WINDOW == 10

\* the signs of a changed share of each move from the early to the middle
\* and from the middle to the late game
RECURSIVE EvolutionShareSigns(_, _, _, _)
EvolutionShareSigns(early_dist, middle_dist, late_dist, i) ==
    IF i > Len(MOVES) THEN <<>>
    ELSE LET move == MOVES[i]
             early == Prob(early_dist, move)
             middle == Prob(middle_dist, move)
             late == Prob(late_dist, move)
         IN (IF FloatDiffExceeds(middle, early, <<15, 100>>)
             THEN << <<move, IF RatGT(middle, early) THEN "increased" ELSE "decreased",
                       "early_to_mid">> >>
             ELSE <<>>)
            \o (IF FloatDiffExceeds(late, middle, <<15, 100>>)
                THEN << <<move, IF RatGT(late, middle) THEN "increased" ELSE "decreased",
                          "mid_to_late">> >>
                ELSE <<>>)
            \o EvolutionShareSigns(early_dist, middle_dist, late_dist, i + 1)

EvolutionSigns(early_dist, middle_dist, late_dist, window_entropies) ==
    EvolutionShareSigns(early_dist, middle_dist, late_dist, 1)
    \o (IF Len(window_entropies) >= TREND_PERIODS
        THEN IF EntropyRiseExceeds(window_entropies[1],
                                   window_entropies[Len(window_entropies)],
                                   <<3, 10>>, BitUnits)
             THEN << <<"becoming_more_random">> >>
             ELSE IF EntropyRiseExceeds(window_entropies[Len(window_entropies)],
                                        window_entropies[1], <<3, 10>>, BitUnits)
             THEN << <<"becoming_more_predictable">> >>
             ELSE <<>>
        ELSE <<>>)

\* a variant of EvolutionType that borrows the label analyze_enemy_adaptation
\* gives to several signs
EvolutionType_BorrowedLabel(adaptation_signs) ==
    IF Len(adaptation_signs) = 0 THEN "stable"
    ELSE IF Has(adaptation_signs, <<"becoming_more_random">>) THEN "defensive_adaptation"
    ELSE IF Has(adaptation_signs, <<"becoming_more_predictable">>) THEN "settling_pattern"
    ELSE IF Len(adaptation_signs) >= 2 THEN "actively_adapting"
    ELSE "minor_adjustment"

EvolutionType(adaptation_signs) ==
    IF Len(adaptation_signs) = 0 THEN "stable"
    ELSE IF Has(adaptation_signs, <<"becoming_more_random">>) THEN "defensive_adaptation"
    ELSE IF Has(adaptation_signs, <<"becoming_more_predictable">>) THEN "settling_pattern"
    ELSE IF Len(adaptation_signs) >= 2 THEN "active_adaptation"
    ELSE "minor_adjustment"

NoEvolution ==
    [status |-> "not_run", total_moves |-> 0, adaptation_signs |-> <<>>,
     adaptation_type |-> "none"]

\* the report on repeated sequences, cycles and biases of the early and late
\* game (detect_patterns) does not enter the classification and is left out
analyze_enemy_evolution(moves) ==
    IF Len(moves) < EVOLUTION_MIN
    THEN [NoEvolution EXCEPT !.status = "insufficient_data", !.total_moves = Len(moves)]
    ELSE LET third == Len(moves) \div 3
             early_dist == get_distribution_adaptation(SubSeq(moves, 1, third))
             middle_dist == get_distribution_adaptation(SubSeq(moves, third + 1, 2 * third))
             late_dist == get_distribution_adaptation(SubSeq(moves, 2 * third + 1, Len(moves)))
             windows == Periods(moves, EVOLUTION_WINDOW)
             window_entropies ==
                 [i \in 1..Len(windows) |->
                     calculate_entropy(get_distribution_adaptation(windows[i]))] \o <<>>
             adaptation_signs ==
                 EvolutionSigns(early_dist, middle_dist, late_dist, window_entropies)
         IN [status |-> "analyzed",
             total_moves |-> Len(moves),
             adaptation_signs |-> adaptation_signs,
             adaptation_type |-> EvolutionType(adaptation_signs)]

(***************************************************************************)
(* deeper_reactive_analysis.py: the evidence main collects for one enemy   *)
(***************************************************************************)
\* fewest battles of an enemy the query selects
DEEPER_QUERY_MIN == 20

\* fewest battles main analyses
DEEPER_MIN == 10

\* the move that loses to `move`
opposite(move) ==
    CASE move = "rock" -> "scissor"
      [] move = "paper" -> "rock"
      [] move = "scissor" -> "paper"

\* transition i counts as a counter of our previous move
CounterHit(bs, i) == bs[i].enemy_move = get_counter(bs[i - 1].our_move)

\* transition i counts as a copy of our previous move
CopyHit(bs, i) ==
    /\ ~CounterHit(bs, i)
    /\ bs[i].enemy_move = bs[i - 1].our_move

\* a variant of OppositeHit: every transition that is no copy
OppositeHit_NoCopy(bs, i) == bs[i].enemy_move # bs[i - 1].our_move

\* transition i counts as the opposite of our previous move
OppositeHit(bs, i) ==
    /\ ~CounterHit(bs, i)
    /\ ~(bs[i].enemy_move = bs[i - 1].our_move)
    /\ bs[i].enemy_move = opposite(bs[i - 1].our_move)

\* the transitions that follow a battle of the given stored result
AfterResult(bs, result) == {i \in 2..Len(bs) : bs[i - 1].result = result}

\* those of them in which the enemy repeats its move
Repeats(bs, result) ==
    Cardinality({i \in AfterResult(bs, result) : bs[i].enemy_move = bs[i - 1].enemy_move})

\* those of them in which the enemy changes its move
Switches(bs, result) ==
    Cardinality({i \in AfterResult(bs, result) : bs[i].enemy_move # bs[i - 1].enemy_move})

\* count / total if total > 0 else 0
RateOrZero(count, total) == IF total > 0 THEN <<count, total>> ELSE <<0, 1>>

\* the three enemy moves that end at battle i
Trigram(bs, i) == <<bs[i - 2].enemy_move, bs[i - 1].enemy_move, bs[i].enemy_move>>

TrigramCount(bs, i) ==
    Cardinality({j \in 3..Len(bs) : Trigram(bs, j) = Trigram(bs, i)})

\* max(patterns.items(), key = count) if patterns else ("none", 0): the most
\* frequent sequence of three enemy moves, the one met first among equals
MostCommonPattern(bs) ==
    IF Len(bs) < 3 THEN <<"none", 0>>
    ELSE LET counts == [k \in 1..(Len(bs) - 2) |-> TrigramCount(bs, k + 2)] \o <<>>
             best == CHOOSE k \in 1..Len(counts) :
                        /\ \A j \in 1..Len(counts) : counts[j] <= counts[k]
                        /\ \A j \in 1..(k - 1) : counts[j] < counts[k]
         IN <<Trigram(bs, best + 2), counts[best]>>

\* the points and reasons of the reactive score
ReactiveReasons(counter_rate, copy_rate, repeat_loss_rate, switch_loss_rate, repeat_win_rate, pattern, pattern_freq) ==
    (IF RatGT(counter_rate, <<38, 100>>) THEN << <<"high_counter", 2>> >>
     ELSE IF RatGT(counter_rate, <<35, 100>>) THEN << <<"moderate_counter", 1>> >>
     ELSE <<>>)
    \o (IF RatGT(copy_rate, <<38, 100>>) THEN << <<"high_copy", 2>> >>
        ELSE IF RatGT(copy_rate, <<35, 100>>) THEN << <<"moderate_copy", 1>> >>
        ELSE <<>>)
    \o (IF RatGT(repeat_loss_rate, <<45, 100>>) THEN << <<"repeat_after_loss", 2>> >>
        ELSE IF RatGT(repeat_loss_rate, <<40, 100>>) THEN << <<"some_repeat_after_loss", 1>> >>
        ELSE <<>>)
    \o (IF RatGT(switch_loss_rate, <<60, 100>>) THEN << <<"switch_after_loss", 1>> >> ELSE <<>>)
    \o (IF RatGT(repeat_win_rate, <<60, 100>>) THEN << <<"repeat_after_win", 1>> >> ELSE <<>>)
    \o (IF RatGT(pattern_freq, <<15, 100>>) THEN << <<"pattern", 1, pattern>> >> ELSE <<>>)

RECURSIVE ReactiveScore(_)
ReactiveScore(reasons) ==
    IF reasons = <<>> THEN 0 ELSE Head(reasons)[2] + ReactiveScore(Tail(reasons))

NoEvidence == [status |-> "not_run", battles |-> 0]

\* the pass of main's loop over one enemy with the battles bs
deeper_reactive_analysis(bs) ==
    IF Len(bs) < DEEPER_QUERY_MIN \/ Len(bs) < DEEPER_MIN
    THEN [NoEvidence EXCEPT !.status = "skipped", !.battles = Len(bs)]
    ELSE LET transitions == 2..Len(bs)
             counter_count == Cardinality({i \in transitions : CounterHit(bs, i)})
             copy_count == Cardinality({i \in transitions : CopyHit(bs, i)})
             opposite_count == Cardinality({i \in transitions : OppositeHit(bs, i)})
             total_losses == Cardinality(AfterResult(bs, "loss"))
             total_wins == Cardinality(AfterResult(bs, "win"))
             total_transitions == Len(bs) - 1
             counter_rate == RateOrZero(counter_count, total_transitions)
             copy_rate == RateOrZero(copy_count, total_transitions)
             opposite_rate == RateOrZero(opposite_count, total_transitions)
             repeat_loss_rate == RateOrZero(Repeats(bs, "loss"), total_losses)
             switch_loss_rate == RateOrZero(Switches(bs, "loss"), total_losses)
             repeat_win_rate == RateOrZero(Repeats(bs, "win"), total_wins)
             switch_win_rate == RateOrZero(Switches(bs, "win"), total_wins)
             most_common_pattern == MostCommonPattern(bs)
             pattern_freq == <<most_common_pattern[2], Max(1, Len(bs) - 2)>>
             reactive_reasons ==
                 ReactiveReasons(counter_rate, copy_rate, repeat_loss_rate,
                                 switch_loss_rate, repeat_win_rate,
                                 most_common_pattern[1], pattern_freq)
             reactive_score == ReactiveScore(reactive_reasons)
         IN [status |-> "analyzed",
             battles |-> Len(bs),
             counter_count |-> counter_count,
             copy_count |-> copy_count,
             opposite_count |-> opposite_count,
             total_losses |-> total_losses,
             total_wins |-> total_wins,
             counter_rate |-> counter_rate,
             copy_rate |-> copy_rate,
             opposite_rate |-> opposite_rate,
             repeat_loss_rate |-> repeat_loss_rate,
             switch_loss_rate |-> switch_loss_rate,
             repeat_win_rate |-> repeat_win_rate,
             switch_win_rate |-> switch_win_rate,
             reactive_score |-> reactive_score,
             reactive_reasons |-> reactive_reasons,
             is_reactive |-> reactive_score >= 2]

(***************************************************************************)
(* get_distribution on a list of moves: the copies of the three scripts    *)
(***************************************************************************)
\* no copy has been called yet
NoDistribution == [status |-> "not_run"]

\* the copy of analyze_enemy_patterns.py returns what the copy of
\* analyze_enemy_adaptation.py returns
Distributions(moves) ==
    [status |-> "returned",
     moves |-> moves,
     behavior |-> get_distribution(moves),
     adaptation |-> get_distribution_adaptation(moves),
     patterns |-> get_distribution_adaptation(moves)]

(***************************************************************************)
(* calculate_entropy on the distribution of a list of moves: the copies of *)
(* the three scripts                                                       *)
(***************************************************************************)
\* no copy has been called yet
NoEntropy == [status |-> "not_run"]

\* every copy is applied to what the get_distribution of its script returns
Entropies(moves) ==
    [status |-> "returned",
     moves |-> moves,
     behavior |-> [dist |-> get_distribution(moves),
                   entropy |-> calculate_entropy_behavior(get_distribution(moves))],
     adaptation |-> [dist |-> get_distribution_adaptation(moves),
                     entropy |-> calculate_entropy_adaptation(
                                    get_distribution_adaptation(moves))],
     patterns |-> [dist |-> get_distribution_adaptation(moves),
                   entropy |-> calculate_entropy_adaptation(
                                  get_distribution_adaptation(moves))]]

(***************************************************************************)
(* test_markov_orders.py: detect_markov_1 and detect_markov_3, on a log of *)
(* battles that hold the enemy move only                                    *)
(***************************************************************************)
\* shortest log detect_markov_1 looks at
MARKOV1_MIN == 10

\* shortest log detect_markov_3 looks at
MARKOV3_MIN == 30

\* fewest occurrences of a context of three moves
MIN_CONTEXT == 5

\* the value returned when no pattern is reported
None == <<>>

\* no call has returned yet
NotRun == <<"not_run">>

\* battles[i]['move'] for every battle
Moves(bs) == [i \in 1..Len(bs) |-> bs[i].move] \o <<>>

\* the transition that ends at move i
Transition(ms, i) == <<ms[i - 1], ms[i]>>

TransitionCount(ms, i) ==
    Cardinality({j \in 2..Len(ms) : Transition(ms, j) = Transition(ms, i)})

\* a variant of Markov1Accepted that reports a share of exactly 0.4
Markov1Accepted_Inclusive(count, total) == RatGE(<<count, total>>, <<4, 10>>)

\* best_transition[1] / total > 0.4
Markov1Accepted(count, total) == RatGT(<<count, total>>, <<4, 10>>)

\* the text returned names the transition, its count and the total
detect_markov_1(bs) ==
    IF Len(bs) < MARKOV1_MIN THEN None
    ELSE LET ms == Moves(bs)
             counts == [k \in 1..(Len(ms) - 1) |-> TransitionCount(ms, k + 1)] \o <<>>
             \* max(transitions.items(), key = count): the first of the
             \* most frequent transitions, in the order they were met
             best == CHOOSE k \in 1..Len(counts) :
                        /\ \A j \in 1..Len(counts) : counts[j] <= counts[k]
                        /\ \A j \in 1..(k - 1) : counts[j] < counts[k]
             total == Len(ms) - 1
         IN IF Markov1Accepted(counts[best], total)
            THEN <<"Markov-1", Transition(ms, best + 1), counts[best], total>>
            ELSE None

\* the three moves before move i
Context(ms, i) == <<ms[i - 3], ms[i - 2], ms[i - 1]>>

\* occurrences of the context of move i followed by move i
PatternCount(ms, i) ==
    Cardinality({j \in 4..Len(ms) : Context(ms, j) = Context(ms, i) /\ ms[j] = ms[i]})

\* occurrences of the context of move i
ContextTotal(ms, i) ==
    Cardinality({j \in 4..Len(ms) : Context(ms, j) = Context(ms, i)})

\* a variant of EnoughContext that takes every context
EnoughContext_Any(context_total) == context_total >= 1

\* context_total >= 5
EnoughContext(context_total) == context_total >= MIN_CONTEXT

\* the text returned names the pattern and its ratio, printed as a
\* percentage; here the ratio is kept as count and context total
detect_markov_3(bs) ==
    IF Len(bs) < MARKOV3_MIN THEN None
    ELSE LET ms == Moves(bs)
             counts == [k \in 1..(Len(ms) - 3) |-> PatternCount(ms, k + 3)] \o <<>>
             totals == [k \in 1..(Len(ms) - 3) |-> ContextTotal(ms, k + 3)] \o <<>>
             eligible == {k \in 1..Len(counts) : EnoughContext(totals[k])}
             ratio(k) == <<counts[k], totals[k]>>
         IN IF eligible = {} THEN None
            ELSE LET \* ratio > best_ratio: the first pattern of the largest
                     \* ratio, in the order the patterns were met
                     best == CHOOSE k \in eligible :
                                /\ \A j \in eligible : RatGE(ratio(k), ratio(j))
                                /\ \A j \in eligible : j < k => RatGT(ratio(k), ratio(j))
                 IN IF RatGT(ratio(best), <<6, 10>>)
                    THEN <<"Markov-3", Context(ms, best + 3), ms[best + 3],
                           counts[best], totals[best]>>
                    ELSE None

(***************************************************************************)
(* simulate_detection_effectiveness.py: simulate_battles replays a profile *)
(* twice, first with random own moves, then with the moves of the          *)
(* detection system.  What random.random() < rate and random.choice(moves) *)
(* give on a turn are inputs of the turn: coin and a drawn move.           *)
(***************************************************************************)
\* None as the value of our_last, enemy_last and last_result
NoMove == "none"

\* the turn from which detection is full: detection_delay = max(0, 10 - i)
FULL_DETECTION == 10

\* the largest detection_delay at which a fixed enemy is countered
FIXED_DELAY == 3

\* one profile of every type of enemy_profiles, and the two loss repeaters
\* of rate 0.46 and 1.0; rate is the counter_rate, copy_rate or repeat_rate
enemy_profiles ==
    {[type |-> "fixed", pattern |-> "rock", rate |-> <<1, 1>>],
     [type |-> "counter", pattern |-> NoMove, rate |-> <<45, 100>>],
     [type |-> "copier", pattern |-> NoMove, rate |-> <<481, 1000>>],
     [type |-> "loss_repeater", pattern |-> NoMove, rate |-> <<46, 100>>],
     [type |-> "loss_repeater", pattern |-> NoMove, rate |-> <<1, 1>>],
     [type |-> "adaptive", pattern |-> NoMove, rate |-> <<0, 1>>]}

\* the values random.random() < rate can take: random() is in [0, 1)
Coins(rate) == IF RatGE(rate, <<1, 1>>) THEN {TRUE} ELSE BOOLEAN

\* the test of simulate_enemy under which a loss repeater may repeat its
\* previous move
MayRepeat(enemy_last_move, last_result) ==
    last_result = "loss" /\ enemy_last_move # NoMove

simulate_enemy(profile, our_last_move, enemy_last_move, last_result, coin, drawn) ==
    IF profile.type = "fixed" THEN profile.pattern
    ELSE IF profile.type = "counter"
    THEN IF our_last_move # NoMove /\ coin THEN get_counter(our_last_move) ELSE drawn
    ELSE IF profile.type = "copier"
    THEN IF our_last_move # NoMove /\ coin THEN our_last_move ELSE drawn
    ELSE IF profile.type = "loss_repeater"
    THEN IF MayRepeat(enemy_last_move, last_result) /\ coin
         THEN enemy_last_move
         ELSE drawn
    ELSE drawn

\* the test of detection_system_move under which a loss repeater's previous
\* move is countered
CounterTheRepeat(enemy_last_move, last_result) ==
    last_result = "win" /\ enemy_last_move # NoMove

detection_system_move(profile, our_last_move, enemy_last_move, last_result, detection_delay, drawn) ==
    IF profile.type = "fixed" /\ detection_delay <= FIXED_DELAY
    THEN get_counter(profile.pattern)
    ELSE IF profile.type = "counter" /\ detection_delay <= 0
    THEN IF our_last_move # NoMove
         THEN get_counter(get_counter(our_last_move))
         ELSE drawn
    ELSE IF profile.type = "copier" /\ detection_delay <= 0
    THEN IF our_last_move # NoMove THEN get_counter(our_last_move) ELSE drawn
    ELSE IF profile.type = "loss_repeater" /\ detection_delay <= 0
    THEN IF CounterTheRepeat(enemy_last_move, last_result)
         THEN get_counter(enemy_last_move)
         ELSE drawn
    ELSE drawn

\* results_without and results_with before the first battle
NoBattles == [win |-> 0, tie |-> 0, loss |-> 0]

\* simulate_battles has not been called
NoSimulation == [status |-> "idle"]

\* the locals at the start of a replay
Replay(status, profile, num_battles, results_without, stream) ==
    [status |-> status, profile |-> profile, num_battles |-> num_battles, i |-> 0,
     our_last |-> NoMove, enemy_last |-> NoMove, last_result |-> NoMove,
     results_without |-> results_without, results_with |-> NoBattles,
     stream |-> stream]

\* the locals after one battle of a replay
Fought(sim, counts, our_move, enemy_move) ==
    [sim EXCEPT ![counts][get_result(our_move, enemy_move)] = @ + 1,
                !.our_last = our_move,
                !.enemy_last = enemy_move,
                !.last_result = get_result(our_move, enemy_move),
                !.i = @ + 1]

(***************************************************************************)
(* Logs with a token that is no move.  The functions look a token up in a  *)
(* dict only in some places; a lookup of a token that is no move raises    *)
(* KeyError.                                                               *)
(***************************************************************************)
\* a token outside the three moves
FOREIGN == "lizard"

Tokens == MoveSet \cup {FOREIGN}

\* a stored battle: the result of a battle of two moves is the one of the
\* game, a battle with a foreign token carries the result it was stored with
Stored(our_move, token, result) ==
    IF token \in MoveSet THEN Battle(our_move, token)
    ELSE [our_move |-> our_move, enemy_move |-> token, result |-> result]

\* detect_reaction_patterns looks up counter[our_prev] for every transition
\* and counter[enemy_prev] for every transition after a loss
ReactionRaisesKeyError(bs) ==
    /\ ~TooFewForReaction(bs)
    /\ \E i \in 2..Len(bs) :
          \/ bs[i - 1].our_move \notin MoveSet
          \/ bs[i - 1].result = "loss" /\ bs[i - 1].enemy_move \notin MoveSet

\* detect_reaction_patterns on a log of tokens
ReactionToTokens(bs) ==
    IF ReactionRaisesKeyError(bs) THEN [status |-> "KeyError"]
    ELSE detect_reaction_patterns(bs)

\* the observer keeps to its opening move; the enemy keeps its token or
\* leaves a move for the foreign token
TokenChoices(bs) ==
    IF bs = <<>> THEN Tokens ELSE {bs[Len(bs)].enemy_move, FOREIGN}

\* the result a battle with the foreign token is stored with: that of the
\* log's first such battle
StoredResults(bs) ==
    IF \E i \in 1..Len(bs) : bs[i].enemy_move = FOREIGN
    THEN {bs[CHOOSE i \in 1..Len(bs) : bs[i].enemy_move = FOREIGN].result}
    ELSE {"win", "loss"}

(***************************************************************************)
(* The logs of the trials of test_detectors.  Every log of TRIAL_BATTLES   *)
(* battles can come out of the random draws of a trial, whatever the enemy *)
(* type.  The model takes the logs of an observer that keeps to rock or    *)
(* goes round rock, paper, scissor, against an enemy that plays rock for   *)
(* its first turns and from then on counters or copies the observer's      *)
(* previous move or goes round rock, paper, scissor.                       *)
(***************************************************************************)
OWN_KINDS == <<"fixed", "cycle">>

ENEMY_KINDS == <<"counter", "copier", "cycle">>

\* the numbers of leading rocks of the enemy
LEADS == <<0, 5>>

Cycle(i) == MOVES[((i - 1) % 3) + 1]

TrialOwnMove(own_kind, i) == IF own_kind = "fixed" THEN "rock" ELSE Cycle(i)

TrialEnemyMove(own_kind, enemy_kind, lead, i) ==
    IF i <= lead \/ (i = 1 /\ enemy_kind # "cycle") THEN "rock"
    ELSE IF enemy_kind = "counter" THEN get_counter(TrialOwnMove(own_kind, i - 1))
    ELSE IF enemy_kind = "copier" THEN TrialOwnMove(own_kind, i - 1)
    ELSE Cycle(i)

TrialLog(own_kind, enemy_kind, lead) ==
    [i \in 1..TRIAL_BATTLES |->
        Battle(TrialOwnMove(own_kind, i), TrialEnemyMove(own_kind, enemy_kind, lead, i))]
    \o <<>>

\* the logs of the trials, one for every choice of the three
TrialLogs ==
    [n \in 0..(Len(OWN_KINDS) * Len(ENEMY_KINDS) * Len(LEADS) - 1) |->
        TrialLog(OWN_KINDS[(n % Len(OWN_KINDS)) + 1],
                 ENEMY_KINDS[((n \div Len(OWN_KINDS)) % Len(ENEMY_KINDS)) + 1],
                 LEADS[(n \div (Len(OWN_KINDS) * Len(ENEMY_KINDS))) + 1])]

\* what the two detectors return for the logs of the trials
RobustDetections ==
    [n \in 1..(Len(OWN_KINDS) * Len(ENEMY_KINDS) * Len(LEADS)) |->
        RobustDetector_detect_pattern(TrialLogs[n - 1])] \o <<>>

OverfittedDetections ==
    [n \in 1..(Len(OWN_KINDS) * Len(ENEMY_KINDS) * Len(LEADS)) |->
        OverfittedDetector_detect_pattern(TrialLogs[n - 1])] \o <<>>

(***************************************************************************)
(* The battle log.  The observer keeps to its opening move; the enemy      *)
(* plays in phases: it keeps its move or leaves it for a move it has not   *)
(* played before.                                                          *)
(***************************************************************************)
OwnChoices(bs) == IF bs = <<>> THEN MoveSet ELSE {bs[1].our_move}

EnemyChoices(bs) ==
    IF bs = <<>> THEN MoveSet
    ELSE {bs[Len(bs)].enemy_move} \cup
         (MoveSet \ {bs[i].enemy_move : i \in 1..Len(bs)})

\* the moves are played in phases: a move is kept or left for a move not
\* played before
Phased(ms) ==
    \A i \in 2..Len(ms) : ms[i] = ms[i - 1] \/ \A j \in 1..(i - 1) : ms[j] # ms[i]

\* from the fifth move on, every move is the counter of the move four turns
\* back
FourBack(ms) == \A i \in 5..Len(ms) : ms[i] = get_counter(ms[i - 4])

\* the enemy of the Markov detectors plays in phases, or it answers its own
\* move of four turns back
MarkovChoices(bs) ==
    {move \in MoveSet :
        LET ms == Append(Moves(bs), move)
        IN Phased(ms) \/ FourBack(ms)}

\* an enemy that never changes its move
FixedChoices(bs) == IF bs = <<>> THEN MoveSet ELSE {bs[1].enemy_move}

Init ==
    /\ battles = <<>>
    /\ detection = NoDetection
    /\ behavior = NotAnalyzed
    /\ adaptation = NoAdaptation
    /\ evolution = NoEvolution
    /\ reaction_result = NoReaction
    /\ reactivity = NoEvidence
    /\ markov1 = NotRun
    /\ markov3 = NotRun
    /\ distribution = NoDistribution
    /\ entropy_result = NoEntropy
    /\ overfitted_detection = NoDetection
    /\ results = NoResults
    /\ processed = <<>>
    /\ simulation = NoSimulation
    /\ report = NoReport

\* one more battle is fought and the gated detector is run on the log
Fight(our_move, enemy_move, longest) ==
    /\ Len(battles) < longest
    /\ battles' = Append(battles, Battle(our_move, enemy_move))
    /\ detection' = RobustDetector_detect_pattern(battles')
    /\ UNCHANGED <<behavior, adaptation, evolution, reaction_result, reactivity,
                   markov1, markov3, distribution, entropy_result,
                   overfitted_detection, results, processed, simulation,
                   report>>

\* one more battle is fought and the three classifiers are run on the log
Classify(our_move, enemy_move, longest) ==
    /\ Len(battles) < longest
    /\ battles' = Append(battles, Battle(our_move, enemy_move))
    /\ behavior' = analyze_enemy_adaptation(battles')
    /\ adaptation' = analyze_adaptation(EnemyMoves(battles'))
    /\ evolution' = analyze_enemy_evolution(EnemyMoves(battles'))
    /\ UNCHANGED <<detection, reaction_result, reactivity, markov1, markov3, distribution,
            entropy_result, overfitted_detection, results, processed,
            simulation, report>>

\* one more battle is fought and the two reaction analyses are run on the log
React(our_move, enemy_move) ==
    /\ Len(battles) < MaxReactions
    /\ battles' = Append(battles, Battle(our_move, enemy_move))
    /\ reaction_result' = detect_reaction_patterns(battles')
    /\ reactivity' = deeper_reactive_analysis(battles')
    /\ UNCHANGED <<detection, behavior, adaptation, evolution, markov1, markov3, distribution,
            entropy_result, overfitted_detection, results, processed,
            simulation, report>>

\* the enemy makes one more move and the two Markov detectors are run on the
\* log
Predict(move) ==
    /\ Len(battles) < MaxMoves
    /\ battles' = Append(battles, [move |-> move])
    /\ markov1' = detect_markov_1(battles')
    /\ markov3' = detect_markov_3(battles')
    /\ UNCHANGED <<detection, behavior, adaptation, evolution, reaction_result, reactivity,
                   distribution, entropy_result, overfitted_detection, results,
                   processed, simulation, report>>

\* the enemy makes one more move; no analysis is run
Sample(move) ==
    /\ Len(battles) < MaxSample
    /\ battles' = Append(battles, [move |-> move])
    /\ UNCHANGED <<detection, behavior, adaptation, evolution, reaction_result, reactivity,
                   markov1, markov3, distribution, entropy_result,
                   overfitted_detection, results, processed, simulation,
                   report>>

\* the three copies of get_distribution are applied to the enemy moves of
\* the log, which may be empty
Distribute ==
    /\ distribution' = Distributions(Moves(battles))
    /\ UNCHANGED <<battles, detection, behavior, adaptation, evolution, reaction_result,
                   reactivity, markov1, markov3, entropy_result,
                   overfitted_detection, results, processed, simulation,
                   report>>

\* the three copies of calculate_entropy are applied to the distributions of
\* the enemy moves of the log, which may be empty
Measure ==
    /\ entropy_result' = Entropies(Moves(battles))
    /\ UNCHANGED <<battles, detection, behavior, adaptation, evolution, reaction_result,
                   reactivity, markov1, markov3, distribution,
                   overfitted_detection, results, processed, simulation,
                   report>>

\* one trial of test_detectors: the log of an enemy of the given type is
\* simulated, both detectors are run on it and each detector's counters and
\* lists are brought up to date
Trial(enemy_type, n) ==
    /\ Len(processed) < MaxTrials
    /\ Len(processed) = MaxTrials - 1 => Mixed(Append(processed, enemy_type))
    /\ processed' = Append(processed, enemy_type)
    /\ battles' = TrialLogs[n - 1]
    /\ detection' = RobustDetections[n]
    /\ overfitted_detection' = OverfittedDetections[n]
    /\ results' =
         [robust |-> Tally(results.robust, detection', TruePattern(enemy_type)),
          overfitted |-> Tally(results.overfitted, overfitted_detection',
                               TruePattern(enemy_type))]
    /\ UNCHANGED <<behavior, adaptation, evolution, reaction_result, reactivity,
                   markov1, markov3, distribution, entropy_result, simulation,
                   report>>

\* simulate_battles is called
Simulate(profile, num_battles) ==
    /\ simulation.status = "idle"
    /\ simulation' = Replay("without", profile, num_battles, NoBattles, <<>>)
    /\ UNCHANGED <<battles, detection, behavior, adaptation, evolution, reaction_result,
                   reactivity, markov1, markov3, distribution, entropy_result,
                   overfitted_detection, results, processed, report>>

\* one battle of the replay without detection
BattleWithout(our_drawn, coin, enemy_drawn) ==
    /\ simulation.status = "without"
    /\ simulation.i < simulation.num_battles
    /\ LET our_move == our_drawn
           enemy_move == simulate_enemy(simulation.profile, simulation.our_last,
                                        simulation.enemy_last, simulation.last_result,
                                        coin, enemy_drawn)
       IN simulation' =
            [Fought(simulation, "results_without", our_move, enemy_move)
                EXCEPT !.stream = Append(@, enemy_move)]
    /\ UNCHANGED <<battles, detection, behavior, adaptation, evolution, reaction_result,
                   reactivity, markov1, markov3, distribution, entropy_result,
                   overfitted_detection, results, processed, report>>

\* the first replay is over and the locals are set up for the second one
WithDetection ==
    /\ simulation.status = "without"
    /\ simulation.i = simulation.num_battles
    /\ simulation' = Replay("with", simulation.profile, simulation.num_battles,
                            simulation.results_without, simulation.stream)
    /\ UNCHANGED <<battles, detection, behavior, adaptation, evolution, reaction_result,
                   reactivity, markov1, markov3, distribution, entropy_result,
                   overfitted_detection, results, processed, report>>

\* one battle of the replay with the detection system
BattleWith(our_drawn, coin, enemy_drawn) ==
    /\ simulation.status = "with"
    /\ simulation.i < simulation.num_battles
    /\ LET detection_delay == Max(0, FULL_DETECTION - simulation.i)
           our_move == detection_system_move(simulation.profile, simulation.our_last,
                                             simulation.enemy_last,
                                             simulation.last_result, detection_delay,
                                             our_drawn)
           enemy_move == simulate_enemy(simulation.profile, simulation.our_last,
                                        simulation.enemy_last, simulation.last_result,
                                        coin, enemy_drawn)
       IN simulation' = Fought(simulation, "results_with", our_move, enemy_move)
    /\ UNCHANGED <<battles, detection, behavior, adaptation, evolution, reaction_result,
                   reactivity, markov1, markov3, distribution, entropy_result,
                   overfitted_detection, results, processed, report>>

\* simulate_battles returns results_without and results_with
Returned ==
    /\ simulation.status = "with"
    /\ simulation.i = simulation.num_battles
    /\ simulation' = [simulation EXCEPT !.status = "returned"]
    /\ UNCHANGED <<battles, detection, behavior, adaptation, evolution, reaction_result,
                   reactivity, markov1, markov3, distribution, entropy_result,
                   overfitted_detection, results, processed, report>>

\* test_detectors has returned and main computes the metrics and the
\* conclusion
Conclude ==
    /\ Len(processed) = MaxTrials
    /\ report = NoReport
    /\ report' = Report(results)
    /\ UNCHANGED <<battles, detection, behavior, adaptation, evolution, reaction_result,
                   reactivity, markov1, markov3, distribution, entropy_result,
                   overfitted_detection, results, processed, simulation>>

\* one more battle is stored, whose enemy token may be no move, and
\* get_distribution, the gated detector and detect_reaction_patterns are run
\* on the log
Observe(our_move, token, result) ==
    /\ Len(battles) < MaxObserved
    /\ battles' = Append(battles, Stored(our_move, token, result))
    /\ distribution' = Distributions(EnemyMoves(battles'))
    /\ detection' = RobustDetector_detect_pattern(battles')
    /\ reaction_result' = ReactionToTokens(battles')
    /\ UNCHANGED <<behavior, adaptation, evolution, reactivity, markov1, markov3,
                   entropy_result, overfitted_detection, results, processed,
                   simulation, report>>

Next ==
    \E our_move \in OwnChoices(battles), enemy_move \in EnemyChoices(battles) :
        Fight(our_move, enemy_move, MaxBattles)

\* the enemy keeps its move or leaves it for the move that beats it, if it
\* has not played that move before
ForwardChoices(bs) ==
    IF bs = <<>> THEN MoveSet
    ELSE {bs[Len(bs)].enemy_move} \cup
         ({get_counter(bs[Len(bs)].enemy_move)} \
            {bs[i].enemy_move : i \in 1..Len(bs)})

\* our moves against an enemy that seems to react: we play the enemy's move
\* of the same turn, and from one of its changes of move on the move that it
\* beats
OwnReplies(bs, enemy_move) ==
    IF \E i \in 1..Len(bs) : bs[i].result # "tie"
    THEN {get_counter(get_counter(enemy_move))}
    ELSE IF bs # <<>> /\ bs[Len(bs)].enemy_move = enemy_move
    THEN {enemy_move}
    ELSE {enemy_move, get_counter(get_counter(enemy_move))}

NextReactive ==
    \E enemy_move \in ForwardChoices(battles) :
        \E our_move \in OwnReplies(battles, enemy_move) :
            Fight(our_move, enemy_move, MaxHistory)

NextClassify ==
    \E our_move \in OwnChoices(battles), enemy_move \in EnemyChoices(battles) :
        Classify(our_move, enemy_move, MaxHistory)

NextFixed ==
    \E our_move \in OwnChoices(battles), enemy_move \in FixedChoices(battles) :
        Classify(our_move, enemy_move, MaxFixedHistory)

NextReact ==
    \E our_move \in OwnChoices(battles), enemy_move \in EnemyChoices(battles) :
        React(our_move, enemy_move)

NextDistribute == (\E move \in MoveSet : Sample(move)) \/ Distribute

NextPredict == \E move \in MarkovChoices(battles) : Predict(move)

NextTrial ==
    \/ \E enemy_type \in ENEMY_TYPES, n \in 1..Len(RobustDetections) : Trial(enemy_type, n)
    \/ Conclude

\* the values random.random() < rate can take for the profile replayed
Tosses == IF simulation.status = "idle" THEN {} ELSE Coins(simulation.profile.rate)

\* short simulations of every profile under every draw
NextSimulate ==
    \/ \E profile \in enemy_profiles : Simulate(profile, MaxSimulated)
    \/ \E our_drawn \in MoveSet, coin \in Tosses, enemy_drawn \in MoveSet :
          BattleWithout(our_drawn, coin, enemy_drawn)
    \/ \E our_drawn \in MoveSet, coin \in Tosses, enemy_drawn \in MoveSet :
          BattleWith(our_drawn, coin, enemy_drawn)
    \/ WithDetection
    \/ Returned

NextObserve ==
    \E our_move \in OwnChoices(battles), token \in TokenChoices(battles),
       result \in StoredResults(battles) :
         Observe(our_move, token, result)

\* what random.choice gives for our move in the long simulations: our
\* previous move, or any move on the first turn
OwnDraws ==
    IF simulation.status = "idle" THEN {}
    ELSE IF simulation.our_last = NoMove THEN MoveSet
    ELSE {simulation.our_last}

\* what random.choice gives for the enemy in the long simulations: any move
\* on the first turn, then its previous move, and in the second replay
\* also the move that beats its previous move
EnemyDraws ==
    IF simulation.status = "idle" THEN {}
    ELSE IF simulation.enemy_last = NoMove THEN MoveSet
    ELSE IF simulation.status = "without" THEN {simulation.enemy_last}
    ELSE {simulation.enemy_last, get_counter(simulation.enemy_last)}

\* long simulations of the loss repeaters
NextExploit ==
    \/ \E profile \in {p \in enemy_profiles : p.type = "loss_repeater"} :
          Simulate(profile, MaxExploited)
    \/ \E our_drawn \in OwnDraws, coin \in Tosses, enemy_drawn \in EnemyDraws :
          BattleWithout(our_drawn, coin, enemy_drawn)
    \/ \E our_drawn \in OwnDraws, coin \in Tosses, enemy_drawn \in EnemyDraws :
          BattleWith(our_drawn, coin, enemy_drawn)
    \/ WithDetection
    \/ Returned

NextMeasure == (\E move \in MoveSet : Sample(move)) \/ Measure

\* the gated detector on the growing log of an enemy that plays in phases
Spec == Init /\ [][Next]_vars

\* the gated detector on logs in which the enemy seems to react
SpecReactive == Init /\ [][NextReactive]_vars

\* the classifiers on the growing log of an enemy that plays in phases
SpecClassify == Init /\ [][NextClassify]_vars

\* the classifiers on the growing log of an enemy that never changes its move
SpecFixed == Init /\ [][NextFixed]_vars

\* the reaction analyses on the growing log of an enemy that plays in phases
SpecReact == Init /\ [][NextReact]_vars

\* the Markov detectors on the growing log of enemy moves
SpecMarkov == Init /\ [][NextPredict]_vars

\* get_distribution on every list of up to MaxSample moves
SpecDistribute == Init /\ [][NextDistribute]_vars

\* the trials of test_detectors and the metrics of main
SpecTrials == Init /\ [][NextTrial]_vars

\* simulate_battles on every profile
SpecSimulate == Init /\ [][NextSimulate]_vars

\* the analyses on the growing log of an enemy whose tokens may be no moves
SpecTokens == Init /\ [][NextObserve]_vars

\* simulate_battles on the loss repeaters, beyond the turn of full detection
SpecExploit == Init /\ [][NextExploit]_vars

\* calculate_entropy on the distribution of every list of up to MaxSample
\* moves
SpecEntropy == Init /\ [][NextMeasure]_vars


(***************************************************************************)
(* Properties of RobustDetector.detect_pattern, checked under Spec         *)
(***************************************************************************)
\* the enemy has played one and the same move in every battle of the log
FixedEnemy == \A i \in 1..Len(battles) : battles[i].enemy_move = battles[1].enemy_move

\* C1: a bias detection is returned only if the chi-square statistic of the
\* three enemy-move counts against the uniform expectation exceeds 5.991 and
\* the share of the reported move exceeds 0.45.
C1_BiasOnlyWhenSignificantAndLarge ==
    detection.type = "bias" =>
        /\ ChiSquareSignificant(EnemyMoves(battles))
        /\ 100 * CountOf(detection.move, EnemyMoves(battles)) > 45 * Len(battles)
        /\ \A m \in MoveSet :
             CountOf(m, EnemyMoves(battles)) <= CountOf(detection.move, EnemyMoves(battles))

\* a bias is detected on a dominant share below one half
C1_Witness ==
    /\ detection.type = "bias"
    /\ 2 * CountOf(detection.move, EnemyMoves(battles)) < Len(battles)

\* C2: a counter (copier) detection is returned only if the one-sided
\* binomial test of the counter (copy) count over the len(battles) - 1
\* transitions against the rate 1/3 gives p < 0.05.
C2_ReactiveOnlyWhenSignificant ==
    /\ detection.type = "counter" =>
         binom_test_significant(CounterCount(battles), Len(battles) - 1)
    /\ detection.type = "copier" =>
         binom_test_significant(CopyCount(battles), Len(battles) - 1)

\* a counter is detected, and a log of the same length with one counter
\* less would not have passed the test
C2_Witness ==
    /\ detection.type = "counter"
    /\ ~binom_test_significant(CounterCount(battles) - 1, Len(battles) - 1)

\* C3, as claimed: against an enemy that always plays the same move, a
\* detection of confidence 0.9 or more is accepted once 5 turns are seen.
C3_DetectedWithinFiveTurns ==
    (FixedEnemy /\ Len(battles) >= 5) =>
        (detection.type # "none" /\ RatGE(detection.confidence, <<9, 10>>))

\* C3, amended: against an enemy that always plays the same move, no
\* detection is accepted before MIN_SAMPLES = 15 turns are seen, and from 15
\* turns on a bias detection of that move with confidence 0.9 or more is.
C3_DetectedFromMinSamples ==
    (FixedEnemy /\ Len(battles) >= 1) =>
        IF Len(battles) < 15
        THEN detection.type = "none"
        ELSE /\ detection.type = "bias"
             /\ detection.move = battles[1].enemy_move
             /\ RatGE(detection.confidence, <<9, 10>>)

\* the first detection against an enemy that always plays the same move
C3_Witness ==
    /\ FixedEnemy
    /\ Len(battles) = 15
    /\ detection.type = "bias"


(***************************************************************************)
(* Properties of the classifiers, checked under SpecClassify               *)
(***************************************************************************)
\* the counter count or the copy count of the log passes the gate of the
\* detector: above expectation, and significant in the binomial test
GatedReactiveAccepted ==
    LET n == Len(battles) - 1
    IN \/ ReactiveAccepted(CounterCount(battles), n)
       \/ ReactiveAccepted(CopyCount(battles), n)

\* C4: analyze_enemy_adaptation labels a log 'reactive' if and only if a
\* counter or copier detection was accepted by a significance test; a raw
\* counter or copy rate, or a reaction after losses alone, never gives the
\* label.
C4_ReactiveIffAccepted ==
    behavior.status = "analyzed" =>
        (behavior.adaptation_type = "reactive" <=> GatedReactiveAccepted)


\* the label of a classifier's result
Label(result) ==
    IF result.status = "insufficient_data" THEN "insufficient_data"
    ELSE result.adaptation_type

\* the three classifiers have looked at the log
Classified ==
    /\ behavior.status # "not_run"
    /\ adaptation.status # "not_run"
    /\ evolution.status # "not_run"

\* the distribution of the last period of analyze_adaptation
LatestDistribution == adaptation.distributions[Len(adaptation.distributions)]

\* C5, as claimed: the classifiers share one order of rules, so a log whose
\* last window deviates from uniform by less than 0.1 in total, and for
\* which no counter or copier detection is accepted, is labelled
\* nash_convergence by analyze_adaptation and by analyze_enemy_adaptation.
C5_NashConvergenceInBothClassifiers ==
    /\ (adaptation.status = "analyzed" /\ ~GatedReactiveAccepted
          /\ ConvergingToNash(LatestDistribution))
       => adaptation.adaptation_type = "nash_convergence"
    /\ (behavior.status = "analyzed" /\ ~GatedReactiveAccepted
          /\ ConvergingToNash(behavior.periods[Len(behavior.periods)].distribution))
       => behavior.adaptation_type = "nash_convergence"

\* C5, amended: each classifier returns the label of the first rule that
\* fires in its own order.  analyze_adaptation: nash_convergence, cycling,
\* adaptive_randomization, settling_into_pattern, actively_adapting (more
\* than two patterns), stable.  analyze_enemy_adaptation: reactive,
\* defensive_randomization, learning (improving performance among two or
\* more signs), actively_adapting (three or more signs), gradually_shifting
\* (one or more), stable.
C5_FirstRuleOfOwnOrder ==
    /\ adaptation.status = "analyzed" =>
         adaptation.adaptation_type =
           (IF ConvergingToNash(LatestDistribution) THEN "nash_convergence"
            ELSE IF Has(adaptation.patterns, <<"cycling_strategy">>) THEN "cycling"
            ELSE IF Has(adaptation.patterns, <<"increasing_randomness">>)
            THEN "adaptive_randomization"
            ELSE IF Has(adaptation.patterns, <<"becoming_predictable">>)
            THEN "settling_into_pattern"
            ELSE IF Len(adaptation.patterns) >= 3 THEN "actively_adapting"
            ELSE "stable")
    /\ behavior.status = "analyzed" =>
         behavior.adaptation_type =
           (IF behavior.reactive_patterns # <<>> THEN "reactive"
            ELSE IF Has(behavior.adaptation_signs, <<"becoming_unpredictable">>)
            THEN "defensive_randomization"
            ELSE IF /\ Has(behavior.adaptation_signs, <<"improving_performance">>)
                    /\ Len(behavior.adaptation_signs) >= 2
            THEN "learning"
            ELSE IF Len(behavior.adaptation_signs) >= 3 THEN "actively_adapting"
            ELSE IF Len(behavior.adaptation_signs) >= 1 THEN "gradually_shifting"
            ELSE "stable")

\* the convergence rule wins over the entropy rule and a shift rule that
\* fire on the same log
C5_Witness ==
    /\ adaptation.status = "analyzed"
    /\ adaptation.adaptation_type = "nash_convergence"
    /\ Has(adaptation.patterns, <<"increasing_randomness">>)
    /\ \E i \in 1..Len(adaptation.patterns) : adaptation.patterns[i][1] = "period"


\* C6, as claimed: every label a classifier returns is one of
\* insufficient_data, stable, nash_convergence, cycling, reactive,
\* defensive_randomization, learning, actively_adapting,
\* settling_into_pattern.
C6_LabelsOfTheCommonSet ==
    Classified =>
        {Label(behavior), Label(adaptation), Label(evolution)} \subseteq
            {"insufficient_data", "stable", "nash_convergence", "cycling", "reactive",
             "defensive_randomization", "learning", "actively_adapting",
             "settling_into_pattern"}

\* C6, amended: every label a classifier returns is one of the labels of
\* that classifier.
C6_LabelsOfEachClassifier ==
    Classified =>
        /\ Label(behavior) \in
             {"insufficient_data", "reactive", "defensive_randomization", "learning",
              "actively_adapting", "gradually_shifting", "stable"}
        /\ Label(adaptation) \in
             {"insufficient_data", "nash_convergence", "cycling", "adaptive_randomization",
              "settling_into_pattern", "actively_adapting", "stable"}
        /\ Label(evolution) \in
             {"insufficient_data", "stable", "defensive_adaptation", "settling_pattern",
              "active_adaptation", "minor_adjustment"}

\* two classifiers label one log with labels that only they use
C6_Witness ==
    /\ Label(behavior) = "gradually_shifting"
    /\ Label(adaptation) = "stable"
    /\ Label(evolution) = "active_adaptation"

\* C7, as claimed: each classifier returns insufficient_data, with the number
\* of turns seen, exactly when the log has fewer than 15 turns.
C7_CommonMinimumOfFifteen ==
    Classified =>
        /\ behavior.status = "insufficient_data" <=> Len(battles) < 15
        /\ adaptation.status = "insufficient_data" <=> Len(battles) < 15
        /\ evolution.status = "insufficient_data" <=> Len(battles) < 15

\* C7, amended: analyze_enemy_adaptation returns insufficient_data, with the
\* number of turns seen, exactly when the log has fewer than 15 turns;
\* analyze_adaptation and analyze_enemy_evolution exactly when it has fewer
\* than 10; every longer log is classified.
C7_MinimumOfEachClassifier ==
    Classified =>
        /\ behavior.status = (IF Len(battles) < 15 THEN "insufficient_data" ELSE "analyzed")
        /\ adaptation.status = (IF Len(battles) < 10 THEN "insufficient_data" ELSE "analyzed")
        /\ evolution.status = (IF Len(battles) < 10 THEN "insufficient_data" ELSE "analyzed")
        /\ behavior.total_battles = Len(battles)
        /\ adaptation.battles = Len(battles)
        /\ evolution.total_moves = Len(battles)

\* a log that two classifiers classify and the third turns away
C7_Witness ==
    /\ behavior.status = "insufficient_data"
    /\ adaptation.status = "analyzed"
    /\ evolution.status = "analyzed"

\* C8: every period of analyze_adaptation and of analyze_enemy_adaptation
\* holds at least 10 turns; a shorter remainder joins the last period.
C8_PeriodsOfTenOrMore ==
    /\ \A i \in 1..Len(adaptation.distributions) : adaptation.distributions[i].total >= 10
    /\ \A i \in 1..Len(behavior.periods) : behavior.periods[i].battles >= 10

\* the enemy moves of the periods one after the other
RECURSIVE Joined(_)
Joined(periods) ==
    IF periods = <<>> THEN <<>> ELSE Head(periods) \o Joined(Tail(periods))

\* C9: analyze_adaptation and analyze_enemy_adaptation build at most 5
\* periods, which follow one another in the order of the log, do not
\* overlap, and together hold every turn once.
C9_AtMostFivePeriodsCoveringTheLog ==
    /\ adaptation.status = "analyzed" =>
         /\ adaptation.periods_analyzed <= 5
         /\ Joined(AdaptationPeriods(EnemyMoves(battles))) = EnemyMoves(battles)
    /\ behavior.status = "analyzed" =>
         /\ Len(behavior.periods) <= 5
         /\ Joined(BehaviorPeriods(battles)) = battles

\* the pairs of periods next to each other in which the dominant move of
\* the later period beats that of the earlier
ForwardPairs ==
    LET periods == AdaptationPeriods(EnemyMoves(battles))
    IN Cardinality({i \in 1..(Len(periods) - 1) :
                       get_result(DominantOfPeriod(periods[i + 1]),
                                  DominantOfPeriod(periods[i])) = "win"})

\* C10, as claimed: analyze_adaptation records the cycling pattern exactly
\* when the forward pairs are at least half of the pairs of periods (for a
\* log of two or more periods).
C10_CyclingOnHalfOfThePairs ==
    (adaptation.status = "analyzed" /\ adaptation.periods_analyzed >= 2) =>
        (Has(adaptation.patterns, <<"cycling_strategy">>)
           <=> 2 * ForwardPairs >= adaptation.periods_analyzed - 1)

\* C10, amended: analyze_adaptation records the cycling pattern exactly when
\* there are three or more periods and the forward pairs are at least half
\* of the number of periods.
C10_CyclingOnHalfOfThePeriods ==
    adaptation.status = "analyzed" =>
        (Has(adaptation.patterns, <<"cycling_strategy">>)
           <=> /\ adaptation.periods_analyzed >= 3
               /\ 2 * ForwardPairs >= adaptation.periods_analyzed)

\* cycling is recorded for a log in which not every pair is a forward pair
C10_Witness ==
    /\ adaptation.status = "analyzed"
    /\ Has(adaptation.patterns, <<"cycling_strategy">>)
    /\ ForwardPairs < adaptation.periods_analyzed - 1

\* the first and the last period of analyze_enemy_adaptation
FirstPeriod == behavior.periods[1]
LastPeriod == behavior.periods[Len(behavior.periods)]

\* the entropy of the last period is more than 0.15 above that of the first
EntropyRose ==
    /\ Len(behavior.periods) >= 2
    /\ EntropyRiseExceeds(FirstPeriod.entropy, LastPeriod.entropy, <<15, 100>>, Log2Of3Units)

\* the enemy's win rate of the last period is more than 0.15 above that of
\* the first
WinRateImproved ==
    /\ Len(behavior.periods) >= 2
    /\ FloatDiffExceeds(LastPeriod.win_rate, FirstPeriod.win_rate, <<15, 100>>)
    /\ RatGT(LastPeriod.win_rate, FirstPeriod.win_rate)

\* C11, as claimed: analyze_enemy_adaptation labels a log learning only if
\* the entropy rose by more than the threshold from the first to the last
\* window and the enemy's win rate improved by more than the threshold; an
\* entropy rise without such an improvement is labelled
\* defensive_randomization.
C11_LearningOnEntropyRiseAndImprovement ==
    behavior.status = "analyzed" =>
        /\ behavior.adaptation_type = "learning" => (EntropyRose /\ WinRateImproved)
        /\ (EntropyRose /\ ~WinRateImproved) =>
               behavior.adaptation_type = "defensive_randomization"

\* C11, amended: analyze_enemy_adaptation labels a log learning only if the
\* enemy's win rate improved by more than 0.15, two or more adaptation signs
\* are recorded and the entropy did not rise by more than 0.15; a log with
\* no reactive pattern whose entropy rose by more than 0.15 is labelled
\* defensive_randomization, whether the win rate improved or not.
C11_LearningOnlyWithoutEntropyRise ==
    behavior.status = "analyzed" =>
        /\ behavior.adaptation_type = "learning" =>
               /\ WinRateImproved
               /\ ~EntropyRose
               /\ Len(behavior.adaptation_signs) >= 2
               /\ behavior.reactive_patterns = <<>>
        /\ (EntropyRose /\ behavior.reactive_patterns = <<>>) =>
               behavior.adaptation_type = "defensive_randomization"

\* a log labelled learning, and its entropy did not rise
C11_Witness ==
    /\ behavior.status = "analyzed"
    /\ behavior.adaptation_type = "learning"
    /\ ~EntropyRose

\* entropy and win rate both rose and the label is defensive_randomization
C11_RiseAndImprovement ==
    /\ behavior.status = "analyzed"
    /\ EntropyRose /\ WinRateImproved
    /\ behavior.adaptation_type = "defensive_randomization"

\* the moves whose share differs by more than 0.15 between the first and
\* the last period of analyze_enemy_adaptation
ShareShifts ==
    IF Len(behavior.periods) < 2 THEN 0
    ELSE Cardinality({m \in MoveSet :
             FloatDiffExceeds(Prob(LastPeriod.distribution, m),
                              Prob(FirstPeriod.distribution, m), <<15, 100>>)})

\* the signs of analyze_enemy_adaptation that are no share of a move: an
\* entropy trend, a win-rate trend, a change of the dominant move
OtherSigns ==
    IF Len(behavior.periods) < 2 THEN 0
    ELSE (IF \/ EntropyRose
             \/ EntropyRiseExceeds(LastPeriod.entropy, FirstPeriod.entropy,
                                   <<15, 100>>, Log2Of3Units)
          THEN 1 ELSE 0)
         + (IF FloatDiffExceeds(LastPeriod.win_rate, FirstPeriod.win_rate, <<15, 100>>)
            THEN 1 ELSE 0)
         + (IF FirstPeriod.dominant_move # LastPeriod.dominant_move THEN 1 ELSE 0)

\* the pairs of consecutive periods of analyze_adaptation between which the
\* share of some move differs by more than 0.2
WindowShifts ==
    Cardinality({i \in 2..Len(adaptation.distributions) :
        \E m \in MoveSet :
            FloatDiffExceeds(Prob(adaptation.distributions[i], m),
                             Prob(adaptation.distributions[i - 1], m), <<2, 10>>)})

\* C12, as claimed: a classifier labels a log actively_adapting only when
\* three or more shifts of a move's share between windows exceed the
\* threshold; an entropy trend, a win-rate trend or a change of the dominant
\* move does not count toward the three.
C12_ThreeDistributionShifts ==
    /\ (adaptation.status = "analyzed" /\ adaptation.adaptation_type = "actively_adapting")
          => WindowShifts >= 3
    /\ (behavior.status = "analyzed" /\ behavior.adaptation_type = "actively_adapting")
          => ShareShifts >= 3

\* C12, amended: analyze_adaptation labels a log actively_adapting only when
\* three or more pairs of consecutive windows differ by more than 0.2 in the
\* share of some move; analyze_enemy_adaptation only when three or more
\* signs of any kind are recorded, share changes, entropy fall, win-rate
\* decline and change of the dominant move together.
C12_ThreeSignsOfAnyKind ==
    /\ (adaptation.status = "analyzed" /\ adaptation.adaptation_type = "actively_adapting")
          => WindowShifts >= 3
    /\ (behavior.status = "analyzed" /\ behavior.adaptation_type = "actively_adapting")
          => /\ ShareShifts + OtherSigns >= 3
             /\ Len(behavior.adaptation_signs) = ShareShifts + OtherSigns

\* analyze_enemy_adaptation labels a log actively_adapting on fewer than
\* three share changes
C12_Witness ==
    /\ behavior.status = "analyzed"
    /\ behavior.adaptation_type = "actively_adapting"
    /\ ShareShifts < 3
    /\ OtherSigns >= 1

\* a rate between 0 and 1
InUnit(rate) == RatGE(rate, <<0, 1>>) /\ RatGE(<<1, 1>>, rate)

\* detect_reaction_patterns has returned the rates
RatesReturned ==
    /\ "counter_rate" \in DOMAIN reaction_result
    /\ "copy_rate" \in DOMAIN reaction_result

\* C13: for every log the reaction analyses work on, a transition between
\* two battles is counted in at most one of counter, copy and opposite
\* (relative to the observer's previous move), so the three counts together
\* never exceed the number of transitions, and every reported rate lies
\* between 0 and 1.
C13_OneCategoryPerTransition ==
    /\ reactivity.status = "analyzed" =>
          /\ \A i \in 2..Len(battles) :
                /\ ~(CounterHit(battles, i) /\ CopyHit(battles, i))
                /\ ~(CounterHit(battles, i) /\ OppositeHit(battles, i))
                /\ ~(CopyHit(battles, i) /\ OppositeHit(battles, i))
          /\ reactivity.counter_count + reactivity.copy_count
                + reactivity.opposite_count <= Len(battles) - 1
          /\ InUnit(reactivity.counter_rate)
          /\ InUnit(reactivity.copy_rate)
          /\ InUnit(reactivity.opposite_rate)
          /\ InUnit(reactivity.repeat_loss_rate)
          /\ InUnit(reactivity.switch_loss_rate)
          /\ InUnit(reactivity.repeat_win_rate)
          /\ InUnit(reactivity.switch_win_rate)
    /\ RatesReturned =>
          /\ CounterCount(battles) + CopyCount(battles) <= Len(battles) - 1
          /\ InUnit(reaction_result.counter_rate)
          /\ InUnit(reaction_result.copy_rate)

\* a log with transitions of each of the three categories
C13_Witness ==
    /\ reactivity.status = "analyzed"
    /\ RatesReturned
    /\ reactivity.counter_count > 0
    /\ reactivity.copy_count > 0
    /\ reactivity.opposite_count > 0

\* the value of a rate that is not defined: a fraction of no turns
Undefined == <<0, 0>>

\* C14: each of the rates repeat after loss, switch after loss, repeat
\* after win and switch after win is reported as undefined, never as the
\* number 0, whenever fewer than 5 previous turns qualify for it.
C14_UndefinedBelowFiveQualifyingTurns ==
    reactivity.status = "analyzed" =>
        /\ reactivity.total_losses < 5 =>
              /\ reactivity.repeat_loss_rate = Undefined
              /\ reactivity.switch_loss_rate = Undefined
        /\ reactivity.total_wins < 5 =>
              /\ reactivity.repeat_win_rate = Undefined
              /\ reactivity.switch_win_rate = Undefined

\* no previous turn qualifies and the four rates are reported as the number 0
C14_ZeroForNoQualifyingTurn ==
    /\ reactivity.status = "analyzed"
    /\ reactivity.total_losses = 0
    /\ reactivity.total_wins = 0
    /\ reactivity.repeat_loss_rate = <<0, 1>>
    /\ reactivity.switch_loss_rate = <<0, 1>>
    /\ reactivity.repeat_win_rate = <<0, 1>>
    /\ reactivity.switch_win_rate = <<0, 1>>

\* detect_reaction_patterns has returned a verdict for the log
VerdictReturned == "reactive" \in DOMAIN reaction_result

EnemyWinTurns == {j \in 1..Len(battles) : battles[j].result = "loss"}

\* the turns detect_reaction_patterns takes for losses of the enemy: those
\* before the transitions of the after-loss analysis
EnemyLossTurns == {i - 1 : i \in AfterLoss(battles)}

\* C16: the stored outcome is read in the observer's sense everywhere; a
\* turn the observer lost, which is a turn the enemy won, is never counted
\* as a loss of the enemy, and within analyze_enemy_adaptation the turns
\* counted as wins of the enemy are not among the turns counted as its
\* losses.
C16_OneObserverConvention ==
    behavior.status = "analyzed" =>
        /\ \A j \in EnemyLossTurns :
              battles[j].enemy_move # get_counter(battles[j].our_move)
        /\ EnemyWinTurns \cap EnemyLossTurns = {}

\* the enemy won every turn, and the reaction analysis reports what it does
\* after a loss
C16_WinsReadAsLosses ==
    /\ behavior.status = "analyzed"
    /\ \A j \in 1..Len(battles) : battles[j].enemy_move = get_counter(battles[j].our_move)
    /\ \A k \in 1..Len(behavior.periods) : RatEq(behavior.periods[k].win_rate, <<1, 1>>)
    /\ Has(behavior.reactive_patterns, <<"after_loss", "repeats_move">>)

\* the transitions prev -> next of the log of enemy moves
PairCount(prev, next) ==
    Cardinality({i \in 2..Len(battles) :
                    battles[i - 1].move = prev /\ battles[i].move = next})

\* the transitions of the log that leave prev
ContextCount(prev) == Cardinality({i \in 2..Len(battles) : battles[i - 1].move = prev})

\* the first transition prev -> next of the log
FirstPair(prev, next) ==
    CHOOSE i \in 2..Len(battles) :
        /\ battles[i - 1].move = prev /\ battles[i].move = next
        /\ \A j \in 2..(i - 1) : ~(battles[j - 1].move = prev /\ battles[j].move = next)

\* detect_markov_1 has reported a transition
Reported1 == markov1 # NotRun /\ markov1 # None

\* C17, as claimed: detect_markov_1 reports a transition prev -> next only
\* if prev occurred at least 5 times as a context and the conditional
\* probability count(prev -> next) / count(prev) exceeds 0.4, and the
\* transition reported has the highest conditional probability among the
\* contexts that occurred at least 5 times.
C17_BestConditionalProbability ==
    Reported1 =>
        LET prev == markov1[2][1]
            next == markov1[2][2]
        IN /\ ContextCount(prev) >= 5
           /\ RatGT(<<PairCount(prev, next), ContextCount(prev)>>, <<4, 10>>)
           /\ \A p \in MoveSet, q \in MoveSet :
                 ContextCount(p) >= 5 =>
                     RatGE(<<PairCount(prev, next), ContextCount(prev)>>,
                           <<PairCount(p, q), ContextCount(p)>>)

\* C17, amended: detect_markov_1 reports a transition prev -> next only if
\* the log has 10 or more moves and the transition makes up more than 0.4
\* of all transitions of the log; the transition reported is the most
\* frequent one, the one met first among equally frequent ones.
C17_MostFrequentTransition ==
    Reported1 =>
        LET prev == markov1[2][1]
            next == markov1[2][2]
        IN /\ Len(battles) >= 10
           /\ markov1[3] = PairCount(prev, next)
           /\ markov1[4] = Len(battles) - 1
           /\ 10 * PairCount(prev, next) > 4 * (Len(battles) - 1)
           /\ \A p \in MoveSet, q \in MoveSet :
                 /\ PairCount(p, q) <= PairCount(prev, next)
                 /\ PairCount(p, q) = PairCount(prev, next) =>
                       FirstPair(prev, next) <= FirstPair(p, q)

\* a transition is reported whose context occurred fewer than 5 times
C17_Witness ==
    /\ Reported1
    /\ ContextCount(markov1[2][1]) < 5

\* a transition is reported and another one, of a context that occurred 5
\* times or more, has a higher conditional probability
C17_NotTheBestConditional ==
    /\ Reported1
    /\ \E p \in MoveSet, q \in MoveSet :
          /\ ContextCount(p) >= 5
          /\ RatGT(<<PairCount(p, q), ContextCount(p)>>,
                   <<PairCount(markov1[2][1], markov1[2][2]), ContextCount(markov1[2][1])>>)

\* the contexts of three moves
Contexts == MoveSet \X MoveSet \X MoveSet

\* the places of the log of enemy moves that follow the context
ContextPlaces(context) ==
    {i \in 4..Len(battles) :
        <<battles[i - 3].move, battles[i - 2].move, battles[i - 1].move>> = context}

\* the conditional ratio of the move next after the context
ConditionalRatio(context, next) ==
    <<Cardinality({i \in ContextPlaces(context) : battles[i].move = next}),
      Cardinality(ContextPlaces(context))>>

\* the context occurred 5 times or more
Supported(context) == Cardinality(ContextPlaces(context)) >= 5

\* some context that occurred 5 times or more has a next move whose
\* conditional ratio exceeds 0.6
SomeSupportedPattern ==
    \E context \in Contexts, next \in MoveSet :
        Supported(context) /\ RatGT(ConditionalRatio(context, next), <<6, 10>>)

\* detect_markov_3 has reported a pattern
Reported3 == markov3 # NotRun /\ markov3 # None

\* the pattern reported has a context that occurred 5 times or more and the
\* largest conditional ratio of all such contexts
ReportedIsBestSupported ==
    Reported3 =>
        /\ Supported(markov3[2])
        /\ <<markov3[4], markov3[5]>> = ConditionalRatio(markov3[2], markov3[3])
        /\ \A context \in Contexts, next \in MoveSet :
              Supported(context) =>
                  RatGE(ConditionalRatio(markov3[2], markov3[3]),
                        ConditionalRatio(context, next))

\* C18, as claimed: detect_markov_3 returns a pattern exactly when some
\* context of three moves that occurred 5 times or more has a next move
\* whose conditional ratio exceeds 0.6; the pattern returned has the largest
\* conditional ratio of all contexts that occurred 5 times or more, and a
\* context that occurred fewer than 5 times is never reported.
C18_PatternIffSupportedContext ==
    markov3 # NotRun =>
        /\ Reported3 <=> SomeSupportedPattern
        /\ ReportedIsBestSupported

\* C18, amended: the same for a log of 30 or more moves; for a shorter log
\* detect_markov_3 returns no pattern, whatever its contexts are.
C18_PatternIffSupportedContextOfLongLog ==
    markov3 # NotRun =>
        /\ Reported3 <=> (Len(battles) >= 30 /\ SomeSupportedPattern)
        /\ ReportedIsBestSupported

\* a pattern is reported whose ratio is below that of a context that
\* occurred fewer than 5 times
C18_Witness ==
    /\ Reported3
    /\ \E context \in Contexts, next \in MoveSet :
          /\ ContextPlaces(context) # {}
          /\ ~Supported(context)
          /\ RatGT(ConditionalRatio(context, next), <<markov3[4], markov3[5]>>)

\* a log of 30 or more moves with contexts that occurred 5 times or more,
\* none of them with a ratio above 0.6: no pattern
C18_NoPatternInLongLog ==
    /\ Len(battles) >= 30
    /\ markov3 = None
    /\ \E context \in Contexts : Supported(context)

\* C19: detect_markov_1 fails for lack of data on every log shorter than 10
\* moves and detect_markov_3 on every log shorter than 30, and this outcome
\* is a status of its own, told apart from the outcome of a log that is long
\* enough and shows no pattern.
C19_ShortLogToldApartFromNoPattern ==
    /\ (markov1 # NotRun /\ Len(battles) < 10) => markov1 # None
    /\ (markov3 # NotRun /\ Len(battles) < 30) => markov3 # None

\* a log of 30 or more moves in which neither detector finds a pattern: both
\* return the value they return for a short log
C19_NoPatternWithEnoughData ==
    /\ Len(battles) >= 30
    /\ markov1 = None
    /\ markov3 = None

\* the distribution of a copy of get_distribution is uniform
Uniform(dist) == \A move \in MoveSet : RatEq(Prob(dist, move), <<1, 3>>)

\* C20: get_distribution applied to an empty list of moves returns the
\* uniform distribution: rock, paper and scissor each get the probability
\* 1/3.
C20_EmptyListIsUniform ==
    (distribution.status = "returned" /\ distribution.moves = <<>>) =>
        /\ Uniform(distribution.behavior)
        /\ Uniform(distribution.adaptation)
        /\ Uniform(distribution.patterns)

\* the three copies have been applied to the empty list and scissor has the
\* largest probability in each of them
C20_ScissorAboveRock ==
    /\ distribution.status = "returned"
    /\ distribution.moves = <<>>
    /\ RatGT(Prob(distribution.behavior, "scissor"), Prob(distribution.behavior, "rock"))
    /\ RatGT(Prob(distribution.adaptation, "scissor"), Prob(distribution.adaptation, "rock"))
    /\ RatGT(Prob(distribution.patterns, "scissor"), Prob(distribution.patterns, "rock"))

(***************************************************************************)
(* Properties of calculate_entropy, checked under SpecEntropy              *)
(***************************************************************************)
\* a <= b for two fractions
RatLE(a, b) == a[1] * b[2] <= b[1] * a[2]

\* the distribution puts probability 1 on a single move
SingleMove(dist) == \E move \in MoveSet : RatEq(Prob(dist, move), <<1, 1>>)

\* the largest entropy of three moves: 1 where the entropy is divided by
\* math.log2(3), and log2(3) where it is not
MaxNormalized == <<1, 1>>
MaxBits == <<Log2Of3Units, 1>>

\* what one copy of calculate_entropy returned is at most the largest
\* entropy, is the largest entropy for the uniform distribution, and is 0
\* for a distribution of a single move
EntropyInRange(copy, largest) ==
    /\ RatLE(copy.entropy, largest)
    /\ Uniform(copy.dist) => RatEq(copy.entropy, largest)
    /\ SingleMove(copy.dist) => RatEq(copy.entropy, <<0, 1>>)

\* C21: calculate_entropy of the uniform distribution is the largest
\* possible value (1 in analyze_enemy_behavior.py, where it is divided by
\* log2(3); log2(3) in the two other scripts), no distribution has a larger
\* entropy, and the entropy of a distribution that puts probability 1 on a
\* single move is 0.
C21_UniformIsMaximalAndSingleMoveIsZero ==
    entropy_result.status = "returned" =>
        /\ EntropyInRange(entropy_result.behavior, MaxNormalized)
        /\ EntropyInRange(entropy_result.adaptation, MaxBits)
        /\ EntropyInRange(entropy_result.patterns, MaxBits)

\* the copies have been applied to the uniform distribution of six moves
C21_Witness ==
    /\ entropy_result.status = "returned"
    /\ Len(entropy_result.moves) = 6
    /\ Uniform(entropy_result.behavior.dist)
    /\ RatEq(entropy_result.behavior.entropy, MaxNormalized)
    /\ RatEq(entropy_result.patterns.entropy, MaxBits)

\* the copies have been applied to the distribution of a single move
C21_SingleMove ==
    /\ entropy_result.status = "returned"
    /\ SingleMove(entropy_result.adaptation.dist)
    /\ RatEq(entropy_result.adaptation.entropy, <<0, 1>>)

(***************************************************************************)
(* Properties of test_detectors, checked under SpecTrials                  *)
(***************************************************************************)
DETECTORS == {"robust", "overfitted"}

COUNTERS == {"true_positives", "false_positives", "true_negatives", "false_negatives"}

\* the counter that a trial belongs to
Chosen(fired, patterned) ==
    IF fired
    THEN IF patterned THEN "true_positives" ELSE "false_positives"
    ELSE IF patterned THEN "false_negatives" ELSE "true_negatives"

\* the trials with a random enemy so far
RandomOpponents == Cardinality({i \in 1..Len(processed) : processed[i] = "random"})

\* the four counters of a detector add up to the trials so far, and its
\* false positives and true negatives to the random enemies so far
CountersMatchTrials ==
    \A d \in DETECTORS :
        /\ results[d].true_positives + results[d].false_positives
             + results[d].true_negatives + results[d].false_negatives = Len(processed)
        /\ results[d].false_positives + results[d].true_negatives = RandomOpponents

\* the trial of a step adds 1 to the chosen counter of a detector and leaves
\* its three other counters alone
OneCounterPerTrial ==
    LET found == [robust |-> detection', overfitted |-> overfitted_detection']
        patterned == processed'[Len(processed')] # "random"
    IN \A d \in DETECTORS : \A c \in COUNTERS :
          results'[d][c] =
              results[d][c] + (IF c = Chosen(Fired(found[d]), patterned) THEN 1 ELSE 0)

\* C22: every trial of test_detectors adds exactly 1 to exactly one of the
\* four counters of each detector, chosen by whether the detector fired and
\* whether the enemy is patterned (not random); after any number of trials
\* the four counters of a detector add up to the number of trials, and its
\* false positives and true negatives to the number of random enemies.
C22_OneCounterPerTrial ==
    /\ CountersMatchTrials
    /\ [][/\ processed' # processed => OneCounterPerTrial
          /\ CountersMatchTrials']_vars

\* two trials have been run, one of them against a random enemy on whose log
\* only the ungated detector fired, the other against a patterned enemy on
\* whose log both fired
C22_Witness ==
    /\ Len(processed) = 2
    /\ RandomOpponents = 1
    /\ results.robust.true_positives = 1
    /\ results.robust.true_negatives = 1
    /\ results.overfitted.true_positives = 1
    /\ results.overfitted.false_positives = 1

(***************************************************************************)
(* Properties of simulate_battles, checked under SpecSimulate              *)
(***************************************************************************)
\* the second replay has fought at least one battle
SecondReplayFought == simulation.status \in {"with", "returned"} /\ simulation.i > 0

\* C23: the replay with random own moves and the replay with the moves of
\* the detection system are run against the same stream of enemy moves: on
\* every turn the enemy's move in the second replay is the enemy's move of
\* that turn in the first replay.
C23_SameOpponentStream ==
    SecondReplayFought => simulation.enemy_last = simulation.stream[simulation.i]

\* on the first turn of the second replay the enemy plays a move that it did
\* not play on the first turn of the first replay
C23_FreshStream ==
    /\ SecondReplayFought
    /\ simulation.i = 1
    /\ simulation.enemy_last # simulation.stream[1]

\* the overfitted detector fired on no random enemy
NoOverfittedFalsePositive ==
    /\ Len(processed) = MaxTrials
    /\ results.overfitted.false_positives = 0

\* C24: every division of the rate and metric computations has its
\* denominator checked: when a denominator is zero (no trials, no random
\* enemies, an overfitted false-positive rate of 0, no qualifying turns) the
\* computation gives a defined default and never raises a division fault.
C24_NoDivisionFault == report.status # "ZeroDivisionError"

\* main got through all its divisions
C24_Printed ==
    /\ report.status = "printed"
    /\ report.robust.precision = <<0, 1>>
    /\ RatGT(report.reduction, <<0, 1>>)

(***************************************************************************)
(* Properties of the analyses on foreign tokens, checked under SpecTokens  *)
(***************************************************************************)
\* the log holds an enemy token that is no move
HasForeignToken == \E i \in 1..Len(battles) : battles[i].enemy_move \notin MoveSet

\* C25: a sequence with a move token outside {rock, paper, scissor} makes
\* the analysis fail fast with an InvalidMove error instead of producing a
\* result: get_distribution returns no distribution for such a list, and
\* the reactive and the gated detector return no detection and no rates.
C25_InvalidMoveFailsFast ==
    HasForeignToken =>
        /\ distribution.status # "returned"
        /\ detection.type = "none"
        /\ "counter_rate" \notin DOMAIN reaction_result

\* for a log of foreign tokens get_distribution returns probabilities that
\* add up to 0, the gated detector a bias towards the foreign token and
\* detect_reaction_patterns its rates
C25_ForeignTokenAnalysed ==
    /\ HasForeignToken
    /\ distribution.status = "returned"
    /\ distribution.behavior.rock + distribution.behavior.paper
         + distribution.behavior.scissor = 0
    /\ detection.type = "bias"
    /\ detection.move = FOREIGN
    /\ "counter_rate" \in DOMAIN reaction_result

\* detect_reaction_patterns raised KeyError on a log with a foreign token
C25_KeyError == HasForeignToken /\ "status" \in DOMAIN reaction_result

\* C26: the gated and the ungated detector differ only by the significance
\* test, so the gate can only remove detections: on every battle sequence on
\* which RobustDetector.detect_pattern returns a detection,
\* OverfittedDetector.detect_pattern returns a detection of the same type.
C26_GateOnlyRemovesDetections ==
    Fired(detection) =>
        /\ Fired(overfitted_detection)
        /\ overfitted_detection.type = detection.type

\* the gated detector returns a copier detection for the log of a trial and
\* the ungated detector returns nothing
C26_CopierOnlyGated ==
    /\ processed # <<>>
    /\ detection.type = "copier"
    /\ ~Fired(overfitted_detection)

\* the gated detector returns a counter detection and the ungated detector a
\* bias detection
C26_CounterReadAsBias ==
    /\ processed # <<>>
    /\ detection.type = "counter"
    /\ overfitted_detection.type = "bias"

\* rock beats scissor, paper beats rock, scissor beats paper
BEATS == {<<"rock", "scissor">>, <<"paper", "rock">>, <<"scissor", "paper">>}

\* a battle of a replay has been fought: our_last, enemy_last and
\* last_result are those of that battle
ReplayFought == simulation.status \in {"without", "with", "returned"} /\ simulation.i > 0

\* C27: get_result(our_move, enemy_move) is 'tie' iff the moves are equal,
\* 'win' iff our_move beats enemy_move (rock beats scissor, paper beats
\* rock, scissor beats paper) and 'loss' otherwise; so get_result(a, b) is
\* 'win' iff get_result(b, a) is 'loss'; get_counter has no fixed point, is
\* one-to-one, and applied three times gives the move back.
C27_ResultOfTheGame ==
    ReplayFought =>
        LET a == simulation.our_last
            b == simulation.enemy_last
            r == simulation.last_result
        IN /\ r \in {"tie", "win", "loss"}
           /\ r = "tie" <=> a = b
           /\ r = "win" <=> <<a, b>> \in BEATS
           /\ r = "win" <=> get_result(b, a) = "loss"
           /\ get_counter(a) # a
           /\ get_counter(a) = get_counter(b) => a = b
           /\ get_counter(get_counter(get_counter(a))) = a

\* a battle of paper against rock has been fought and won, and its mirror
\* image is lost
C27_Witness ==
    /\ ReplayFought
    /\ simulation.our_last = "paper"
    /\ simulation.enemy_last = "rock"
    /\ simulation.last_result = "win"
    /\ get_result("rock", "paper") = "loss"

(***************************************************************************)
(* Properties of simulate_battles against a loss repeater, checked under   *)
(* SpecExploit                                                             *)
(***************************************************************************)
\* a battle of the second replay against a loss repeater is about to be
\* fought with full detection
Exploiting ==
    /\ simulation.status = "with"
    /\ simulation.profile.type = "loss_repeater"
    /\ simulation.i >= FULL_DETECTION
    /\ simulation.i < simulation.num_battles

\* the enemy lost the previous battle: last_result is the result for our
\* side
EnemyLostLast == simulation.last_result = "win"

\* C28: against a loss repeater the test under which simulate_enemy may
\* repeat its previous move and the test under which detection_system_move,
\* once detection is full, counters the enemy's previous move pick the same
\* turns, those that follow a battle the enemy lost; with repeat_rate 1.0
\* the detection policy wins every battle that follows an enemy loss.
C28_RepeatIsCountered ==
    [][Exploiting =>
        /\ MayRepeat(simulation.enemy_last, simulation.last_result) <=> EnemyLostLast
        /\ CounterTheRepeat(simulation.enemy_last, simulation.last_result) <=> EnemyLostLast
        /\ (RatGE(simulation.profile.rate, <<1, 1>>) /\ EnemyLostLast) =>
              simulation'.last_result = "win"]_vars

\* with full detection and repeat_rate 1.0 the enemy has lost a battle, has
\* not repeated its move in the next one and has not lost it
C28_NoRepeatAfterEnemyLoss ==
    /\ simulation.status = "with"
    /\ simulation.profile.type = "loss_repeater"
    /\ RatGE(simulation.profile.rate, <<1, 1>>)
    /\ simulation.i > FULL_DETECTION
    /\ simulation.last_result = "tie"
    /\ simulation.results_with.win > 0

(***************************************************************************)
(* Properties of RobustDetector.detect_pattern on logs of a seemingly      *)
(* reacting enemy, checked under SpecReactive                              *)
(***************************************************************************)
\* the chi-square test of the log is significant and the share of the
\* dominant move is at most 0.45
SignificantButSmallShare ==
    /\ ChiSquareSignificant(EnemyMoves(battles))
    /\ ~RatGT(<<CountOf(Dominant(EnemyMoves(battles)), EnemyMoves(battles)),
                Len(battles)>>, <<45, 100>>)

\* the counter count of the log passes its binomial test
CounterAccepted ==
    ReactiveAccepted(CounterCount(battles), Len(battles) - 1)

\* the copy count of the log passes its binomial test
CopierAccepted ==
    ReactiveAccepted(CopyCount(battles), Len(battles) - 1)

\* C29: RobustDetector.detect_pattern returns at most one detection, with
\* the precedence bias, counter, copier: a log shorter than 15 gives none; a
\* log of 15 to 19 battles gives a bias detection or none; when the
\* chi-square test is significant but the dominant share is at most 0.45 the
\* reactive tests are still run; a copier detection is returned only when
\* neither a bias nor a counter detection was accepted.
C29_OneDetectionByPrecedence ==
    /\ detection.type \in {"none", "bias", "counter", "copier"}
    /\ Len(battles) < 15 => detection.type = "none"
    /\ Len(battles) \in 15..19 => detection.type \in {"none", "bias"}
    /\ Len(battles) >= 15 /\ BiasAccepted(battles) => detection.type = "bias"
    /\ Len(battles) >= 20 /\ ~BiasAccepted(battles) /\ CounterAccepted =>
          detection.type = "counter"
    /\ Len(battles) >= 20 /\ SignificantButSmallShare =>
          detection.type = IF CounterAccepted THEN "counter"
                           ELSE IF CopierAccepted THEN "copier"
                           ELSE "none"
    /\ detection.type = "copier" =>
          ~BiasAccepted(battles) /\ ~CounterAccepted /\ CopierAccepted

\* a counter detection on a log whose chi-square test is significant and
\* whose dominant share is at most 0.45
C29_ReactiveAfterSmallShare ==
    /\ SignificantButSmallShare
    /\ detection.type = "counter"

\* both reactive tests accept the log and the counter detection is returned
C29_CounterBeforeCopier ==
    /\ Len(battles) >= 20
    /\ CounterAccepted
    /\ CopierAccepted
    /\ detection.type = "counter"

\* a copier detection on a log whose chi-square test is significant
C29_CopierAfterSmallShare ==
    /\ SignificantButSmallShare
    /\ detection.type = "copier"

\* a log of 19 battles whose counter count passes the binomial test gives
\* no detection
C29_ShortLogNotReactive ==
    /\ Len(battles) = 19
    /\ CounterAccepted
    /\ detection.type = "none"

\* a bias detection on a log whose counter count passes the binomial test
C29_BiasBeforeCounter ==
    /\ Len(battles) >= 20
    /\ CounterAccepted
    /\ detection.type = "bias"

(***************************************************************************)
(* Properties of the dominant move, checked under Spec                     *)
(***************************************************************************)
\* the battles of a log in the opposite order: a permutation of the log with
\* the same counts of rock, paper and scissor
Reversed(bs) == [i \in 1..Len(bs) |-> bs[Len(bs) + 1 - i]]

\* C30: the move reported in a bias detection of
\* RobustDetector.detect_pattern depends only on the counts of rock, paper
\* and scissor: a permutation of the log, here the log in the opposite
\* order, gets the same reported move, even when two moves tie for the
\* largest count.
C30_ReportedMoveOfCountsOnly ==
    detection.type = "bias" =>
        RobustDetector_detect_pattern(Reversed(battles)).move = detection.move

\* a bias detection on a log in which two moves tie for the largest count
C30_BiasOnTiedCounts ==
    /\ detection.type = "bias"
    /\ \E m \in MoveSet \ {detection.move} :
          CountOf(m, EnemyMoves(battles)) =
              CountOf(detection.move, EnemyMoves(battles))

====
